---- MODULE Spec2Model ----
(***************************************************************************)
(* A model of novel_generator.py: the streaming-continuation wrapper       *)
(* invoke_with_cleaning, and the setting / draft / finalize / import       *)
(* pipelines that are built on it.                                          *)
(*                                                                          *)
(* Texts are sequences of one-character strings.  The two tags "<think>"   *)
(* and "</think>" are single symbols: neither tag overlaps itself or the   *)
(* other, so cutting a character string into these symbols loses nothing.  *)
(***************************************************************************)
EXTENDS Integers, Sequences, FiniteSets, TLC

(***************************************************************************)
(* Bounds of the model.                                                     *)
(***************************************************************************)
\* increments one invoke_with_cleaning call receives, over all its exchanges
MaxChunks == 3
\* stream requests one invoke_with_cleaning call may issue in the model
MaxRequests == 3
\* length of the buffer beyond which the provider of SpecInvokeLive only
\* yields empty increments
MaxBuffer == 4
\* pipeline operations started in one behaviour
MaxOps == 3
\* max_length of the chunker, scaled to the short texts of the model
ModelMaxLength == 4
\* most sentences of a text given to the chunker
MaxSentences == 3

(***************************************************************************)
(* Python string operations used by the code.                               *)
(***************************************************************************)
Sentinel == <<"#", "#", "#">>

OpenTag == "<think>"

CloseTag == "</think>"

IsSpace(c) == c \in {" ", "\n"}

RECURSIVE lstrip(_)
lstrip(s) ==
    IF s = <<>> THEN <<>>
    ELSE IF IsSpace(Head(s)) THEN lstrip(Tail(s))
    ELSE s

RECURSIVE rstrip(_)
rstrip(s) ==
    IF s = <<>> THEN <<>>
    ELSE IF IsSpace(s[Len(s)]) THEN rstrip(SubSeq(s, 1, Len(s) - 1))
    ELSE s

\* str.strip()
strip(s) == rstrip(lstrip(s))

\* str.endswith(suffix)
endswith(s, suffix) ==
    /\ Len(s) >= Len(suffix)
    /\ SubSeq(s, Len(s) - Len(suffix) + 1, Len(s)) = suffix

\* the least index >= from at which symbol c stands in s, or 0
RECURSIVE IndexFrom(_, _, _)
IndexFrom(s, c, from) ==
    IF from > Len(s) THEN 0
    ELSE IF s[from] = c THEN from
    ELSE IndexFrom(s, c, from + 1)

\* re.sub(r'<think>.*?</think>', '', text, flags=re.DOTALL): leftmost match
\* first, each match ending at the nearest closing tag; an opening tag with
\* no closing tag after it matches nothing, and neither does any later one.
RECURSIVE remove_think_tags(_)
remove_think_tags(text) ==
    LET i == IndexFrom(text, OpenTag, 1)
        j == IF i = 0 THEN 0 ELSE IndexFrom(text, CloseTag, i + 1)
    IN  IF i = 0 \/ j = 0 THEN text
        ELSE SubSeq(text, 1, i - 1) \o remove_think_tags(SubSeq(text, j + 1, Len(text)))

\* the concatenation of a sequence of texts
RECURSIVE Flatten(_)
Flatten(ss) == IF ss = <<>> THEN <<>> ELSE Head(ss) \o Flatten(Tail(ss))

\* the non-empty texts of a sequence of texts, in order
RECURSIVE SelectNonEmpty(_)
SelectNonEmpty(ss) ==
    IF ss = <<>> THEN <<>>
    ELSE IF Len(Head(ss)) = 0 THEN SelectNonEmpty(Tail(ss))
    ELSE <<Head(ss)>> \o SelectNonEmpty(Tail(ss))

(***************************************************************************)
(* invoke_with_cleaning: messages and the increments a stream may yield.    *)
(***************************************************************************)
\* the caller's prompt
Prompt == <<"p">>

\* "\n在末尾请发出###表示你的回答已经结束，末尾不要有###以外的任何多余符号"
SentinelDirective == <<"[end-with-###]">>

\* "请接着最后一句话继续。如果最后一句话没有说完，就将最后一句话补全后再继续"
ContinueInstruction == <<"[continue]">>

UserMessage(content) == [role |-> "user", content |-> content]

AIMessage(content) == [role |-> "assistant", content |-> content]

\* chunk.content of one increment of model.stream(...)
ChunkSet ==
    { <<>>, <<" ", "a">>, <<"#">>, <<"#", "#", "#">>, <<"#", "#", "#", "\n">>,
      <<OpenTag, "b">>, <<CloseTag>> }

VARIABLES
    pc,            \* position of the invoke_with_cleaning call
    chat_history,  \* chat_history.messages
    msg,           \* the accumulated buffer
    before_len,    \* len(msg) at the end of the previous exchange
    result,        \* the value returned, once pc = "returned"
    requests,      \* the message lists passed to model.stream, in order
    exchanges      \* per request, the increments its stream has yielded

VARIABLES
    filename_set,          \* content of Novel_setting.txt
    filename_dir,          \* content of Novel_directory.txt
    outline_file,          \* content of outlines/outline_{n}.txt, per n
    chapter_file,          \* content of chapters/chapter_{n}.txt, per n
    character_state_file,  \* content of character_state.txt
    global_summary_file,   \* content of global_summary.txt
    plot_arcs_file,        \* content of plot_arcs.txt
    vectorstore,           \* the documents of the vector store, in insertion order
    stage,                 \* position of the running pipeline operation
    locals,                \* its arguments and local variables
    calls,                 \* the prompts it has passed to invoke_with_cleaning
    written,               \* the files it has written
    outcome,               \* how the last operation ended
    pre,                   \* the files and the store as the operation found them
    history,               \* the insertions into the vector store, in order
    ops,                   \* number of pipeline operations started
    parked                 \* the call of the thread that is not running

ivars == <<pc, chat_history, msg, before_len, result, requests, exchanges>>

ledgers == <<character_state_file, global_summary_file, plot_arcs_file>>

files == <<filename_set, filename_dir, outline_file, chapter_file,
           character_state_file, global_summary_file, plot_arcs_file>>

pvars == <<files, vectorstore, stage, locals, calls, written, outcome, pre,
           history, ops, parked>>

vars == <<ivars, pvars>>

\* a loop that gives up on a long buffer
LoopContinuesCapped(buffer) ==
    ~endswith(strip(buffer), Sentinel) /\ Len(buffer) < 2

\* a loop test that forgets to trim the buffer
LoopContinuesUntrimmed(buffer) == ~endswith(buffer, Sentinel)

\* the test of the while loop, line 91
LoopContinues(buffer) == ~endswith(strip(buffer), Sentinel)

\* lines 116-118: what the call returns for a finished buffer
CleanedReturn(buffer) == strip(remove_think_tags(buffer))

\* a slice that starts at the beginning whatever from is
SliceFromStart(s, from) == s

\* msg[before_len:]
Slice(s, from) == SubSeq(s, from + 1, Len(s))

\* all increments received so far, in order of arrival
AllChunks == Flatten(exchanges)

\* chapter numbers of the project
Chapters == {1, 2}

\* the locals of no operation
NoLocals == [op |-> "none"]

InvokeOnly ==
    /\ pc = "start"
    /\ chat_history = <<>>
    /\ msg = <<>>
    /\ before_len = 0
    /\ result = <<>>
    /\ requests = <<>>
    /\ exchanges = <<>>

\* a thread that runs no pipeline operation
NoCall ==
    [ stage |-> "idle", locals |-> NoLocals, calls |-> <<>>, written |-> {},
      outcome |-> "none", pre |-> NoLocals ]

\* the project directory before any pipeline operation has run
PipelineIdle ==
    /\ filename_set = <<>>
    /\ filename_dir = <<>>
    /\ outline_file = [n \in Chapters |-> <<>>]
    /\ character_state_file = <<>>
    /\ global_summary_file = <<>>
    /\ plot_arcs_file = <<>>
    /\ vectorstore = <<>>
    /\ stage = "idle"
    /\ locals = NoLocals
    /\ calls = <<>>
    /\ written = {}
    /\ outcome = "none"
    /\ pre = NoLocals
    /\ history = <<>>
    /\ ops = 0
    /\ parked = NoCall

(***************************************************************************)
(* The steps of invoke_with_cleaning.  Each step is written as its effect  *)
(* on the control state (pc, msg, before_len, result) and its effect on    *)
(* the message history and on the record of the calls to model.stream.     *)
(***************************************************************************)
\* lines 78-81: msg = "", before_len = 0, the first model.stream call
StartControl ==
    /\ pc = "start"
    /\ msg' = <<>>
    /\ before_len' = 0
    /\ pc' = "stream"
    /\ UNCHANGED result

\* lines 82-86 and 95-99: an empty increment is skipped, any other appended
ChunkControl(c) ==
    /\ pc = "stream"
    /\ msg' = IF Len(c) = 0 THEN msg ELSE msg \o c
    /\ UNCHANGED <<pc, before_len, result>>

\* lines 88 and 101: before_len = len(msg) once the stream is exhausted
EndControl ==
    /\ pc = "stream"
    /\ before_len' = Len(msg)
    /\ pc' = "check"
    /\ UNCHANGED <<msg, result>>

\* lines 91-94: the loop test holds and the next model.stream call is made
ContinueControl ==
    /\ pc = "check"
    /\ LoopContinues(msg)
    /\ pc' = "stream"
    /\ UNCHANGED <<msg, before_len, result>>

\* lines 104-105 and 110-118: the loop is left and the cleaned text returned.
\* An AIMessage object is truthy, so line 113 never takes its branch.
ReturnControl ==
    /\ pc = "check"
    /\ ~LoopContinues(msg)
    /\ result' = CleanedReturn(msg)
    /\ pc' = "returned"
    /\ UNCHANGED <<msg, before_len>>

\* lines 106-109: the provider raises while a stream is consumed
ErrorControl ==
    /\ pc = "stream"
    /\ pc' = "raised"
    /\ UNCHANGED <<msg, before_len, result>>

\* lines 73-81: build the history and issue the first stream request
InvokeStart ==
    /\ StartControl
    /\ chat_history' = <<UserMessage(Prompt \o SentinelDirective)>>
    /\ requests' = Append(requests, chat_history')
    /\ exchanges' = Append(exchanges, <<>>)
    /\ UNCHANGED pvars

\* lines 81-86 and 94-99: one increment of the current stream
StreamChunk(c) ==
    /\ Len(AllChunks) < MaxChunks
    /\ ChunkControl(c)
    /\ exchanges' = [exchanges EXCEPT ![Len(exchanges)] = Append(@, c)]
    /\ UNCHANGED <<chat_history, requests, pvars>>

\* lines 87-88 and 100-101: the stream is exhausted
StreamEnd ==
    /\ EndControl
    /\ chat_history' = Append(chat_history, AIMessage(Slice(msg, before_len)))
    /\ UNCHANGED <<requests, exchanges, pvars>>

\* lines 91-94: the buffer lacks the sentinel, so a continuation is requested
ContinueRequest ==
    /\ Len(requests) < MaxRequests
    /\ ContinueControl
    /\ chat_history' = Append(chat_history,
                              UserMessage(ContinueInstruction \o SentinelDirective))
    /\ requests' = Append(requests, chat_history')
    /\ exchanges' = Append(exchanges, <<>>)
    /\ UNCHANGED pvars

\* lines 104-118
InvokeReturn ==
    /\ ReturnControl
    /\ UNCHANGED <<chat_history, requests, exchanges, pvars>>

\* lines 106-109
StreamError ==
    /\ ErrorControl
    /\ UNCHANGED <<chat_history, requests, exchanges, pvars>>

InvokeInit ==
    /\ InvokeOnly
    /\ PipelineIdle
    /\ chapter_file = [n \in Chapters |-> <<>>]

InvokeNext ==
    \/ InvokeStart
    \/ \E c \in ChunkSet : StreamChunk(c)
    \/ StreamEnd
    \/ ContinueRequest
    \/ InvokeReturn
    \/ StreamError

SpecInvoke == InvokeInit /\ [][InvokeNext]_vars

(***************************************************************************)
(* The same call with no bound on the number of requests.  The message     *)
(* history and the record of the calls never influence the control state,  *)
(* so they are left out; the provider yields non-empty increments only     *)
(* while the buffer is shorter than MaxBuffer.                              *)
(***************************************************************************)
NoRecord == UNCHANGED <<chat_history, requests, exchanges, pvars>>

LiveStart == StartControl /\ NoRecord

LiveChunk(c) ==
    /\ Len(c) = 0 \/ Len(msg) + Len(c) <= MaxBuffer
    /\ ChunkControl(c)
    /\ NoRecord

LiveEnd == EndControl /\ NoRecord

LiveContinue == ContinueControl /\ NoRecord

LiveReturn == ReturnControl /\ NoRecord

LiveError == ErrorControl /\ NoRecord

InvokeLiveNext ==
    \/ LiveStart
    \/ \E c \in ChunkSet : LiveChunk(c)
    \/ LiveEnd
    \/ LiveContinue
    \/ LiveReturn
    \/ LiveError

\* The program is sequential and runs on: each of its own steps is taken
\* once it is enabled.  A stream that does not raise is exhausted.
SpecInvokeLive ==
    /\ InvokeInit
    /\ [][InvokeLiveNext]_vars
    /\ WF_vars(LiveStart)
    /\ WF_vars(LiveEnd)
    /\ WF_vars(LiveContinue)
    /\ WF_vars(LiveReturn)

(***************************************************************************)
(* The pipelines.  A pipeline operation runs alone (the program is single- *)
(* threaded); it is cut into steps at its calls to invoke_with_cleaning    *)
(* and to the embedding provider, where a provider error may end it.       *)
(***************************************************************************)
\* buffers on which the loop of invoke_with_cleaning may end
ProviderBuffers ==
    { <<"#", "#", "#">>,
      <<"a", "#", "#", "#", "\n">>,
      <<OpenTag, "b", CloseTag, "a", "*", "a", "a", "a", "#", "#", "#">> }

\* the texts invoke_with_cleaning returns on these buffers
InvokeResults ==
    { CleanedReturn(b) : b \in { x \in ProviderBuffers : ~LoopContinues(x) } }

\* the answers to the prompts whose wording alone matters to the pipeline
ShortResults == { r \in InvokeResults : Len(r) <= 4 }

\* the answer that is four characters long
OneResult == { r \in InvokeResults : Len(r) = 4 }

\* the answers to the request for the finalized setting: the short answers
\* and one made of markup and a space
SettingResults ==
    ShortResults \cup { CleanedReturn(<<"*", " ", "#", "#", "#">>) }

\* target_word_count arguments
WordNumbers == {10}

\* utils.read_file: the content of the file, empty when the file is absent
read_file(content) == content

\* utils.clear_file_content
clear_file_content(content) == <<>>

\* utils.save_string_to_txt on a cleared file
save_string_to_txt(text, content) == content \o text

\* a write that forgets to clear the file first
OverwriteWithoutClear(content, text) == save_string_to_txt(text, content)

\* clear_file_content(f); save_string_to_txt(text, f)
Overwrite(content, text) == save_string_to_txt(text, clear_file_content(content))

\* an enrichment that fires at 80% of the target as well
IsTooShortInclusive(text, word_number) == 5 * Len(text) <= 4 * word_number

\* line 692: len(chapter_text) < 0.8 * word_number
IsTooShort(text, word_number) == 5 * Len(text) < 4 * word_number

\* names of the files, as recorded when they are written
LedgerFiles ==
    { <<"character_state", 0>>, <<"global_summary", 0>>, <<"plot_arcs", 0>> }

\* the files and the store as an operation finds them
Snapshot ==
    [ filename_set |-> filename_set, filename_dir |-> filename_dir,
      outline_file |-> outline_file, chapter_file |-> chapter_file,
      character_state_file |-> character_state_file,
      global_summary_file |-> global_summary_file,
      plot_arcs_file |-> plot_arcs_file, vectorstore |-> vectorstore ]

\* an operation is entered: its records start empty
Enter ==
    /\ stage = "idle"
    /\ ops < MaxOps
    /\ ops' = ops + 1
    /\ pre' = Snapshot

\* an operation ends: by a return ("returned"), by the return that follows
\* a warning ("noop"), or by an exception ("raised")
Leave(how) ==
    /\ stage' = "done"
    /\ outcome' = how

\* control is back at the caller, and the records of the call are dropped
BackToCaller ==
    /\ stage = "done"
    /\ stage' = "idle"
    /\ locals' = NoLocals
    /\ calls' = <<>>
    /\ written' = {}
    /\ pre' = NoLocals
    /\ outcome' = "none"
    /\ UNCHANGED <<ivars, parked, files, vectorstore, history, ops>>

\* the stages that wait for invoke_with_cleaning to return
InvokeStages ==
    { "set_base", "set_char", "set_dark", "set_final", "dir_gen",
      "draft_outline", "draft_prose",
      "fin_enrich", "fin_summary", "fin_char", "fin_arcs" }

\* invoke_with_cleaning re-raises the provider's error (line 109) and no
\* pipeline function catches it
ProviderError ==
    /\ stage \in InvokeStages
    /\ Leave("raised")
    /\ UNCHANGED <<ivars, parked, files, vectorstore, locals, calls, written, pre, history, ops>>

(***************************************************************************)
(* finalize_chapter, lines 657-763.                                         *)
(***************************************************************************)
\* a store update that keeps only the newest chapter
update_vector_store_replacing(store, new_chapter) == <<new_chapter>>

\* update_vector_store, lines 271-305: the store is created from the one
\* text when it does not exist, and the text added to it otherwise
update_vector_store(store, new_chapter) ==
    IF store = <<>> THEN <<new_chapter>> ELSE Append(store, new_chapter)

\* a load that forgets to trim the draft
LoadDraftUntrimmed(content) == read_file(content)

\* line 678: read_file(chapter_file).strip()
LoadDraft(content) == strip(read_file(content))

\* lines 676-692: the draft is read; an empty one ends the call
FinalizeStart(n, w) ==
    LET chapter_text == LoadDraft(chapter_file[n])
    IN  /\ Enter
        /\ calls' = <<>>
        /\ written' = {}
        /\ IF chapter_text = <<>>
           THEN /\ Leave("noop")
                /\ locals' = [ op |-> "finalize", novel_number |-> n, word_number |-> w ]
           ELSE /\ locals' =
                     [ op |-> "finalize", novel_number |-> n, word_number |-> w,
                       chapter_text |-> chapter_text,
                       old_char_state |-> read_file(character_state_file),
                       old_global_summary |-> read_file(global_summary_file),
                       old_plot_arcs |-> read_file(plot_arcs_file),
                       new_global_summary |-> <<>>, new_char_state |-> <<>> ]
                /\ stage' = IF IsTooShort(chapter_text, w)
                            THEN "fin_enrich" ELSE "fin_summary"
                /\ UNCHANGED outcome
        /\ UNCHANGED <<ivars, parked, files, vectorstore, history>>

\* an enrichment that appends its answer to the draft file
EnrichWriteAppending(content, text) == content \o text

\* lines 702-703: the draft file is overwritten with the enriched text
EnrichWrite(content, text) == Overwrite(content, text)

\* lines 692-703 with enrich_chapter_text, lines 766-790
FinalizeEnrich(enriched_text) ==
    LET text == IF enriched_text # <<>> THEN enriched_text ELSE locals.chapter_text
        n == locals.novel_number
    IN  /\ stage = "fin_enrich"
        /\ calls' = Append(calls, [ kind |-> "enrich",
                                    chapter_text |-> locals.chapter_text,
                                    word_number |-> locals.word_number,
                                    response |-> enriched_text ])
        /\ locals' = [locals EXCEPT !.chapter_text = text]
        /\ chapter_file' = [chapter_file EXCEPT ![n] = EnrichWrite(@, text)]
        /\ written' = written \cup {<<"chapter", n>>}
        /\ stage' = "fin_summary"
        /\ UNCHANGED <<ivars, parked, filename_set, filename_dir, outline_file, ledgers,
                       vectorstore, outcome, pre, history, ops>>

\* a consolidation that saves the summary as soon as it has it
FinalizeSummarySaving(response) ==
    /\ stage = "fin_summary"
    /\ calls' = Append(calls, [ kind |-> "summary",
                                chapter_text |-> locals.chapter_text,
                                old |-> locals.old_global_summary,
                                response |-> response ])
    /\ locals' = [locals EXCEPT !.new_global_summary =
                     IF response # <<>> THEN response ELSE locals.old_global_summary]
    /\ global_summary_file' = Overwrite(global_summary_file, locals'.new_global_summary)
    /\ stage' = "fin_char"
    /\ UNCHANGED <<ivars, parked, filename_set, filename_dir, outline_file, chapter_file,
                   character_state_file, plot_arcs_file, vectorstore, written, outcome,
                   pre, history, ops>>

\* lines 715-722: update_global_summary
FinalizeSummary(response) ==
    /\ stage = "fin_summary"
    /\ calls' = Append(calls, [ kind |-> "summary",
                                chapter_text |-> locals.chapter_text,
                                old |-> locals.old_global_summary,
                                response |-> response ])
    /\ locals' = [locals EXCEPT !.new_global_summary =
                     IF response # <<>> THEN response ELSE locals.old_global_summary]
    /\ stage' = "fin_char"
    /\ UNCHANGED <<ivars, parked, files, vectorstore, written, outcome, pre, history, ops>>

\* lines 725-732: update_character_state
FinalizeCharState(response) ==
    /\ stage = "fin_char"
    /\ calls' = Append(calls, [ kind |-> "character",
                                chapter_text |-> locals.chapter_text,
                                old |-> locals.old_char_state,
                                response |-> response ])
    /\ locals' = [locals EXCEPT !.new_char_state =
                     IF response # <<>> THEN response ELSE locals.old_char_state]
    /\ stage' = "fin_arcs"
    /\ UNCHANGED <<ivars, parked, files, vectorstore, written, outcome, pre, history, ops>>

\* the ledger texts as written by a slip that crosses two of them
LedgerWritesCrossed(new_char_state, new_global_summary, new_plot_arcs) ==
    [ character_state |-> new_global_summary,
      global_summary |-> new_char_state,
      plot_arcs |-> new_plot_arcs ]

\* lines 744-752: which text goes to which ledger file
LedgerWrites(new_char_state, new_global_summary, new_plot_arcs) ==
    [ character_state |-> new_char_state,
      global_summary |-> new_global_summary,
      plot_arcs |-> new_plot_arcs ]

\* lines 735-752: update_plot_arcs (lines 523-547), then the three ledger
\* files are overwritten
FinalizePlotArcs(arcs_text) ==
    LET new_plot_arcs == IF arcs_text # <<>> THEN arcs_text ELSE locals.old_plot_arcs
        w == LedgerWrites(locals.new_char_state, locals.new_global_summary,
                          new_plot_arcs)
    IN  /\ stage = "fin_arcs"
        /\ calls' = Append(calls, [ kind |-> "arcs",
                                    chapter_text |-> locals.chapter_text,
                                    old |-> locals.old_plot_arcs,
                                    response |-> arcs_text ])
        /\ character_state_file' = Overwrite(character_state_file, w.character_state)
        /\ global_summary_file' = Overwrite(global_summary_file, w.global_summary)
        /\ plot_arcs_file' = Overwrite(plot_arcs_file, w.plot_arcs)
        /\ written' = written \cup LedgerFiles
        /\ stage' = "fin_vector"
        /\ UNCHANGED <<ivars, parked, filename_set, filename_dir, outline_file, chapter_file,
                       vectorstore, locals, outcome, pre, history, ops>>

\* lines 754-763: the chapter text is inserted into the vector store
FinalizeVector ==
    /\ stage = "fin_vector"
    /\ vectorstore' = update_vector_store(vectorstore, locals.chapter_text)
    /\ history' = Append(history, [ op |-> "finalize",
                                    texts |-> <<locals.chapter_text>> ])
    /\ Leave("returned")
    /\ UNCHANGED <<ivars, parked, files, locals, calls, written, pre, ops>>

\* a failed insert that puts the files back as the call found them
FinalizeVectorErrorRollingBack ==
    /\ stage = "fin_vector"
    /\ Leave("raised")
    /\ filename_set' = pre.filename_set
    /\ filename_dir' = pre.filename_dir
    /\ outline_file' = pre.outline_file
    /\ chapter_file' = pre.chapter_file
    /\ character_state_file' = pre.character_state_file
    /\ global_summary_file' = pre.global_summary_file
    /\ plot_arcs_file' = pre.plot_arcs_file
    /\ UNCHANGED <<ivars, parked, vectorstore, locals, calls, written, pre, history, ops>>

\* the embedding provider raises inside update_vector_store
FinalizeVectorError ==
    /\ stage = "fin_vector"
    /\ Leave("raised")
    /\ UNCHANGED <<ivars, parked, files, vectorstore, locals, calls, written, pre, history, ops>>

(***************************************************************************)
(* Novel_setting_generate, lines 342-404, and Novel_directory_generate,     *)
(* lines 408-452.                                                           *)
(***************************************************************************)
\* str.replace(c, '') for every c of chars
RECURSIVE RemoveChars(_, _)
RemoveChars(text, chars) ==
    IF text = <<>> THEN <<>>
    ELSE IF Head(text) \in chars THEN RemoveChars(Tail(text), chars)
    ELSE <<Head(text)>> \o RemoveChars(Tail(text), chars)

\* a cleaning that removes the number signs only
StripMarkupHashOnly(text) == RemoveChars(text, {"#"})

\* lines 401 and 449: .replace('#', '').replace('*', '')
StripMarkup(text) == RemoveChars(RemoveChars(text, {"#"}), {"*"})

\* lines 357-375: the model is created and the base setting requested
SettingStart ==
    /\ Enter
    /\ calls' = <<>>
    /\ written' = {}
    /\ locals' = [ op |-> "setting", base_setting |-> <<>>,
                   character_setting |-> <<>>, dark_lines |-> <<>> ]
    /\ stage' = "set_base"
    /\ UNCHANGED <<ivars, parked, files, vectorstore, outcome, history>>

\* lines 375-381
SettingBase(base_setting) ==
    /\ stage = "set_base"
    /\ calls' = Append(calls, [ kind |-> "base", response |-> base_setting ])
    /\ locals' = [locals EXCEPT !.base_setting = base_setting]
    /\ stage' = "set_char"
    /\ UNCHANGED <<ivars, parked, files, vectorstore, written, outcome, pre, history, ops>>

\* lines 381-387
SettingCharacter(character_setting) ==
    /\ stage = "set_char"
    /\ calls' = Append(calls, [ kind |-> "characters",
                                novel_setting |-> locals.base_setting,
                                response |-> character_setting ])
    /\ locals' = [locals EXCEPT !.character_setting = character_setting]
    /\ stage' = "set_dark"
    /\ UNCHANGED <<ivars, parked, files, vectorstore, written, outcome, pre, history, ops>>

\* a third stage that already saves what there is of the setting
SettingDarkLinesSaving(dark_lines) ==
    /\ stage = "set_dark"
    /\ calls' = Append(calls, [ kind |-> "dark_lines",
                                character_info |-> locals.character_setting,
                                response |-> dark_lines ])
    /\ locals' = [locals EXCEPT !.dark_lines = dark_lines]
    /\ filename_set' = Overwrite(filename_set, StripMarkup(dark_lines))
    /\ stage' = "set_final"
    /\ UNCHANGED <<ivars, parked, filename_dir, outline_file, chapter_file, ledgers,
                   vectorstore, written, outcome, pre, history, ops>>

\* lines 387-395
SettingDarkLines(dark_lines) ==
    /\ stage = "set_dark"
    /\ calls' = Append(calls, [ kind |-> "dark_lines",
                                character_info |-> locals.character_setting,
                                response |-> dark_lines ])
    /\ locals' = [locals EXCEPT !.dark_lines = dark_lines]
    /\ stage' = "set_final"
    /\ UNCHANGED <<ivars, parked, files, vectorstore, written, outcome, pre, history, ops>>

\* lines 395-404: the finalized setting is cleaned and written
SettingFinal(final_novel_setting) ==
    /\ stage = "set_final"
    /\ calls' = Append(calls, [ kind |-> "final_setting",
                                novel_setting_base |-> locals.base_setting,
                                character_setting |-> locals.character_setting,
                                dark_lines |-> locals.dark_lines,
                                response |-> final_novel_setting ])
    /\ filename_set' = Overwrite(filename_set, StripMarkup(final_novel_setting))
    /\ written' = written \cup {<<"Novel_setting", 0>>}
    /\ Leave("returned")
    /\ UNCHANGED <<ivars, parked, filename_dir, outline_file, chapter_file, ledgers,
                   vectorstore, locals, pre, history, ops>>

\* a load that forgets to trim the setting
LoadSettingUntrimmed(content) == read_file(content)

\* line 421: read_file(filename_set).strip()
LoadSetting(content) == strip(read_file(content))

\* lines 419-440: without a setting the call ends, else the directory is
\* requested
DirectoryStart ==
    LET final_novel_setting == LoadSetting(filename_set)
    IN  /\ Enter
        /\ calls' = <<>>
        /\ written' = {}
        /\ locals' = [ op |-> "directory",
                       final_novel_setting |-> final_novel_setting ]
        /\ IF final_novel_setting = <<>>
           THEN Leave("noop")
           ELSE /\ stage' = "dir_gen"
                /\ UNCHANGED outcome
        /\ UNCHANGED <<ivars, parked, files, vectorstore, history>>

\* lines 440-452: an empty answer ends the call, any other is cleaned and
\* written
DirectoryGenerate(final_novel_directory) ==
    /\ stage = "dir_gen"
    /\ calls' = Append(calls, [ kind |-> "directory",
                                final_novel_setting |-> locals.final_novel_setting,
                                response |-> final_novel_directory ])
    /\ IF strip(final_novel_directory) = <<>>
       THEN /\ Leave("noop")
            /\ UNCHANGED <<filename_dir, written>>
       ELSE /\ filename_dir' = Overwrite(filename_dir, StripMarkup(final_novel_directory))
            /\ written' = written \cup {<<"Novel_directory", 0>>}
            /\ Leave("returned")
    /\ UNCHANGED <<ivars, parked, filename_set, outline_file, chapter_file, ledgers,
                   vectorstore, locals, pre, history, ops>>

(***************************************************************************)
(* generate_chapter_draft, lines 551-653.                                   *)
(***************************************************************************)
\* user_guidance arguments
Guidances == { <<>>, <<"g">> }

\* chapter_brief values the directory parser may return
Briefs == { <<>>, <<"b">> }

\* "回顾剧情"
FallbackQuery == <<"[review-the-plot]">>

\* "暂无相关内容。"
NoContextPlaceholder == <<"[no-relevant-content]">>

\* lines 578-583
BuildQueries(user_guidance, chapter_brief) ==
    (IF strip(user_guidance) # <<>> THEN <<user_guidance>> ELSE <<>>)
    \o (IF strip(chapter_brief) # <<>> THEN <<chapter_brief>> ELSE <<>>)
    \o <<FallbackQuery>>

\* "\n".join(texts)
RECURSIVE JoinLines(_)
JoinLines(texts) ==
    IF texts = <<>> THEN <<>>
    ELSE IF Len(texts) = 1 THEN Head(texts)
    ELSE Head(texts) \o <<"\n">> \o JoinLines(Tail(texts))

Min(a, b) == IF a < b THEN a ELSE b

\* get_relevant_context_from_vector_store, lines 308-338: the texts the
\* store may return for one query, joined; which documents rank first is the
\* store's choice
RelevantContexts(store, k) ==
    IF store = <<>> THEN { <<>> }
    ELSE { JoinLines([i \in 1..Len(idx) |-> store[idx[i]]]) :
             idx \in { q \in [1..Min(k, Len(store)) -> 1..Len(store)] :
                         \A i, j \in DOMAIN q : i # j => q[i] # q[j] } }

\* a concatenation that tests the partial context for emptiness only
RECURSIVE CombineContextsKeepingBlank(_)
CombineContextsKeepingBlank(partials) ==
    IF partials = <<>> THEN <<>>
    ELSE (IF Head(partials) # <<>> THEN <<"\n">> \o Head(partials) ELSE <<>>)
         \o CombineContextsKeepingBlank(Tail(partials))

\* lines 585-599: the partial contexts are appended in query order
RECURSIVE CombineContexts(_)
CombineContexts(partials) ==
    IF partials = <<>> THEN <<>>
    ELSE (IF strip(Head(partials)) # <<>> THEN <<"\n">> \o Head(partials) ELSE <<>>)
         \o CombineContexts(Tail(partials))

\* an outline that always goes to the file of chapter 1
OutlineNumberFixed(novel_number) == 1

\* line 627: the outline goes to outline_{novel_number}.txt
OutlineNumber(novel_number) == novel_number

\* line 648: the draft goes to chapter_{novel_number}.txt
ChapterNumber(novel_number) == novel_number

\* lines 572-623: the queries are built, the context retrieved and the
\* outline requested
DraftStart(n, user_guidance, chapter_brief) ==
    LET queries == BuildQueries(user_guidance, chapter_brief)
    IN  /\ Enter
        /\ calls' = <<>>
        /\ written' = {}
        /\ \E partials \in [1..Len(queries) -> RelevantContexts(vectorstore, 2)] :
              LET combined == CombineContexts(partials)
              IN  locals' = [ op |-> "draft", novel_number |-> n,
                              user_guidance |-> user_guidance,
                              chapter_brief |-> chapter_brief,
                              queries |-> queries,
                              partials |-> partials,
                              relevant_context |->
                                  IF combined = <<>> THEN NoContextPlaceholder
                                  ELSE combined,
                              chapter_outline |-> <<>> ]
        /\ stage' = "draft_outline"
        /\ UNCHANGED <<ivars, parked, files, vectorstore, outcome, history>>

\* lines 585-599: the embedding provider raises while a query is answered,
\* which needs a store to search
DraftRetrievalError(n, user_guidance, chapter_brief) ==
    /\ Enter
    /\ vectorstore # <<>>
    /\ calls' = <<>>
    /\ written' = {}
    /\ locals' = [ op |-> "draft", novel_number |-> n,
                   user_guidance |-> user_guidance,
                   chapter_brief |-> chapter_brief ]
    /\ Leave("raised")
    /\ UNCHANGED <<ivars, parked, files, vectorstore, history>>

\* an outline step that keeps the outline in memory and saves nothing
DraftOutlineUnsaved(chapter_outline) ==
    LET n == locals.novel_number
    IN  /\ stage = "draft_outline"
        /\ calls' = Append(calls, [ kind |-> "outline", novel_number |-> n,
                                    relevant_context |-> locals.relevant_context,
                                    user_guidance |-> locals.user_guidance,
                                    chapter_brief |-> locals.chapter_brief,
                                    response |-> chapter_outline ])
        /\ locals' = [locals EXCEPT !.chapter_outline = chapter_outline]
        /\ stage' = "draft_prose"
        /\ UNCHANGED <<ivars, parked, files, vectorstore, written, outcome, pre,
                       history, ops>>

\* lines 623-629: the outline is written
DraftOutline(chapter_outline) ==
    LET n == locals.novel_number
    IN  /\ stage = "draft_outline"
        /\ calls' = Append(calls, [ kind |-> "outline", novel_number |-> n,
                                    relevant_context |-> locals.relevant_context,
                                    user_guidance |-> locals.user_guidance,
                                    chapter_brief |-> locals.chapter_brief,
                                    response |-> chapter_outline ])
        /\ locals' = [locals EXCEPT !.chapter_outline = chapter_outline]
        /\ outline_file' = [outline_file EXCEPT
                                ![OutlineNumber(n)] = Overwrite(@, chapter_outline)]
        /\ written' = written \cup {<<"outline", OutlineNumber(n)>>}
        /\ stage' = "draft_prose"
        /\ UNCHANGED <<ivars, parked, filename_set, filename_dir, chapter_file, ledgers,
                       vectorstore, outcome, pre, history, ops>>

\* lines 631-653: the prose is requested and the draft written
DraftProse(chapter_content) ==
    LET n == locals.novel_number
    IN  /\ stage = "draft_prose"
        /\ calls' = Append(calls, [ kind |-> "prose", novel_number |-> n,
                                    relevant_context |-> locals.relevant_context,
                                    chapter_outline |-> locals.chapter_outline,
                                    user_guidance |-> locals.user_guidance,
                                    chapter_brief |-> locals.chapter_brief,
                                    response |-> chapter_content ])
        /\ chapter_file' = [chapter_file EXCEPT
                                ![ChapterNumber(n)] = Overwrite(@, chapter_content)]
        /\ written' = written \cup {<<"chapter", ChapterNumber(n)>>}
        /\ Leave("returned")
        /\ UNCHANGED <<ivars, parked, filename_set, filename_dir, outline_file, ledgers,
                       vectorstore, locals, pre, history, ops>>

(***************************************************************************)
(* import_knowledge_file, lines 794-835, with advanced_split_content,       *)
(* lines 838-877, and split_by_length, lines 880-887.                       *)
(***************************************************************************)
\* similarity_threshold = 0.7, as the fraction ThresholdNum / ThresholdDen
ThresholdNum == 7

ThresholdDen == 10

Dot(u, v) == u[1] * v[1] + u[2] * v[2] + u[3] * v[3]

\* a test that a similarity equal to the threshold fails
SimilarEnoughStrict(u, v) ==
    /\ Dot(u, v) > 0
    /\ ThresholdDen * ThresholdDen * Dot(u, v) * Dot(u, v)
          > ThresholdNum * ThresholdNum * Dot(u, u) * Dot(v, v)

\* cosine_similarity(u, v) >= similarity_threshold, in exact arithmetic; the
\* similarity of a zero vector to anything is 0
SimilarEnough(u, v) ==
    /\ Dot(u, v) > 0
    /\ ThresholdDen * ThresholdDen * Dot(u, v) * Dot(u, v)
          >= ThresholdNum * ThresholdNum * Dot(u, u) * Dot(v, v)

\* " ".join(sentences)
RECURSIVE JoinSpaces(_)
JoinSpaces(texts) ==
    IF texts = <<>> THEN <<>>
    ELSE IF Len(texts) = 1 THEN Head(texts)
    ELSE Head(texts) \o <<" ">> \o JoinSpaces(Tail(texts))

\* line 860: (current_embedding + embeddings[i]) / 2.0, the centroid being
\* the vector centroid.v / centroid.d
Mean(centroid, embedding) ==
    [ v |-> <<centroid.v[1] + centroid.d * embedding[1],
              centroid.v[2] + centroid.d * embedding[2],
              centroid.v[3] + centroid.d * embedding[3]>>,
      d |-> 2 * centroid.d ]

\* a merge that forgets to keep the segment it closes
RECURSIVE MergeFromLosing(_, _, _, _, _)
MergeFromLosing(sentences, embeddings, i, current, centroid) ==
    IF i > Len(sentences) THEN <<JoinSpaces(current)>>
    ELSE IF SimilarEnough(centroid.v, embeddings[i])
         THEN MergeFromLosing(sentences, embeddings, i + 1,
                              Append(current, sentences[i]),
                              Mean(centroid, embeddings[i]))
         ELSE MergeFromLosing(sentences, embeddings, i + 1, <<sentences[i]>>,
                              [ v |-> embeddings[i], d |-> 1 ])

\* lines 856-867, from sentence i on: current is the open segment and
\* centroid its running embedding.  (c + e) / 2 is kept as the vector
\* centroid.v / centroid.d, which has the direction of centroid.v.
RECURSIVE MergeFrom(_, _, _, _, _)
MergeFrom(sentences, embeddings, i, current, centroid) ==
    IF i > Len(sentences) THEN <<JoinSpaces(current)>>
    ELSE IF SimilarEnough(centroid.v, embeddings[i])
         THEN MergeFrom(sentences, embeddings, i + 1, Append(current, sentences[i]),
                        Mean(centroid, embeddings[i]))
         ELSE <<JoinSpaces(current)>>
              \o MergeFrom(sentences, embeddings, i + 1, <<sentences[i]>>,
                           [ v |-> embeddings[i], d |-> 1 ])

\* a split whose slices are one character too long
RECURSIVE split_by_length_long(_, _, _)
split_by_length_long(text, max_length, start_idx) ==
    IF start_idx >= Len(text) THEN <<>>
    ELSE LET end_idx == IF start_idx + max_length + 1 < Len(text)
                        THEN start_idx + max_length + 1 ELSE Len(text)
         IN  <<strip(SubSeq(text, start_idx + 1, end_idx))>>
             \o split_by_length_long(text, max_length, end_idx)

\* split_by_length, lines 880-887
RECURSIVE split_by_length(_, _, _)
split_by_length(text, max_length, start_idx) ==
    IF start_idx >= Len(text) THEN <<>>
    ELSE LET end_idx == Min(start_idx + max_length, Len(text))
         IN  <<strip(SubSeq(text, start_idx + 1, end_idx))>>
             \o split_by_length(text, max_length, end_idx)

\* lines 869-877
RECURSIVE HardSplit(_, _)
HardSplit(paragraphs, max_length) ==
    IF paragraphs = <<>> THEN <<>>
    ELSE (IF Len(Head(paragraphs)) > max_length
          THEN split_by_length(Head(paragraphs), max_length, 0)
          ELSE <<Head(paragraphs)>>)
         \o HardSplit(Tail(paragraphs), max_length)

\* lines 852-867: the segments before they are cut to max_length
merged_paragraphs(sentences, embeddings) ==
    MergeFrom(sentences, embeddings, 2, <<sentences[1]>>,
              [ v |-> embeddings[1], d |-> 1 ])

\* advanced_split_content, lines 838-877, on the sentences nltk found in the
\* content and the embeddings the sentence model gave them
advanced_split_content(sentences, embeddings, max_length) ==
    IF sentences = <<>> THEN <<>>
    ELSE HardSplit(merged_paragraphs(sentences, embeddings), max_length)

\* the files a user may pick: a path with no file, a blank file, and a file
\* of two sentences
KnowledgeFiles ==
    { [ exists |-> FALSE, content |-> <<>>, sentences |-> <<>>, embeddings |-> <<>> ],
      [ exists |-> TRUE, content |-> <<" ", "\n">>, sentences |-> <<>>,
        embeddings |-> <<>> ],
      [ exists |-> TRUE, content |-> <<"x", ".", " ", "y", ".">>,
        sentences |-> << <<"x", ".">>, <<"y", ".">> >>,
        embeddings |-> << <<1, 0, 0>>, <<0, 1, 0>> >> ] }

\* an import that replaces the documents of the store
AddDocumentsReplacing(store, docs) == docs

\* lines 819-834: init_vector_store(paragraphs) on a store that does not
\* exist, store.add_documents(docs) otherwise
AddDocuments(store, docs) == store \o docs

\* import_knowledge_file, lines 794-835
ImportKnowledge(file) ==
    /\ Enter
    /\ calls' = <<>>
    /\ written' = {}
    /\ locals' = [ op |-> "import", file |-> file ]
    /\ stage' = "done"
    /\ IF ~file.exists \/ strip(read_file(file.content)) = <<>>
       THEN /\ outcome' = "noop"
            /\ UNCHANGED <<vectorstore, history>>
       ELSE /\ vectorstore' =
                 AddDocuments(vectorstore,
                              advanced_split_content(file.sentences, file.embeddings,
                                                     ModelMaxLength))
            /\ history' = Append(history, [ op |-> "import",
                                            texts |-> Slice(vectorstore', Len(vectorstore)) ])
            /\ outcome' = "returned"
    /\ UNCHANGED <<ivars, parked, files>>

\* the sentences nltk may find in a text
ChunkSentences == { <<"a">>, <<"b", " ", "c">> }

\* the embeddings the sentence model may give them: the similarity of the
\* first two is 0.7, that of the last two above it, that of the first and the
\* last 0
ChunkEmbeddings == { <<1, 1, 0>>, <<3, 4, 5>>, <<0, 0, 1>> }

\* sequences of at most n elements of S
SeqsUpTo(S, n) == UNION { [1..k -> S] : k \in 0..n }

\* advanced_split_content is called on a text, lines 845-877
SplitContent(sentences, embeddings, max_length) ==
    /\ stage = "idle"
    /\ Len(embeddings) = Len(sentences)
    /\ stage' = "done"
    /\ outcome' = "returned"
    /\ locals' = [ op |-> "split", sentences |-> sentences,
                   embeddings |-> embeddings, max_length |-> max_length,
                   merged_paragraphs |->
                       IF sentences = <<>> THEN <<>>
                       ELSE merged_paragraphs(sentences, embeddings),
                   final_segments |->
                       advanced_split_content(sentences, embeddings, max_length) ]
    /\ UNCHANGED <<ivars, parked, files, vectorstore, calls, written, pre, history, ops>>

ChunkNext ==
    \/ \E sentences \in SeqsUpTo(ChunkSentences, MaxSentences),
          embeddings \in SeqsUpTo(ChunkEmbeddings, MaxSentences),
          max_length \in 1..ModelMaxLength :
             SplitContent(sentences, embeddings, max_length)
    \/ BackToCaller

(***************************************************************************)
(* Two threads that call finalize_chapter.  The function takes no lock: a  *)
(* thread may be preempted between any two of its steps, and here the      *)
(* three ledger files are written in three steps, lines 745-752.           *)
(***************************************************************************)
\* the call of the running thread
Running ==
    [ stage |-> stage, locals |-> locals, calls |-> calls, written |-> written,
      outcome |-> outcome, pre |-> pre ]

\* the running thread is preempted and the other thread runs on
Switch ==
    /\ parked' = Running
    /\ stage' = parked.stage
    /\ locals' = parked.locals
    /\ calls' = parked.calls
    /\ written' = parked.written
    /\ outcome' = parked.outcome
    /\ pre' = parked.pre
    /\ UNCHANGED <<ivars, files, vectorstore, history, ops>>

\* lines 735-742: update_plot_arcs returns
ThreadPlotArcs(arcs_text) ==
    LET new_plot_arcs == IF arcs_text # <<>> THEN arcs_text ELSE locals.old_plot_arcs
    IN  /\ stage = "fin_arcs"
        /\ calls' = Append(calls, [ kind |-> "arcs",
                                    chapter_text |-> locals.chapter_text,
                                    old |-> locals.old_plot_arcs,
                                    response |-> arcs_text ])
        /\ locals' = [ f \in DOMAIN locals \cup {"new_plot_arcs"} |->
                         IF f = "new_plot_arcs" THEN new_plot_arcs ELSE locals[f] ]
        /\ stage' = "fin_write_char"
        /\ UNCHANGED <<ivars, parked, files, vectorstore, written, outcome, pre,
                       history, ops>>

\* the texts the thread is about to write
ThreadLedgerWrites ==
    LedgerWrites(locals.new_char_state, locals.new_global_summary,
                 locals.new_plot_arcs)

\* lines 745-746
ThreadWriteCharState ==
    /\ stage = "fin_write_char"
    /\ character_state_file' =
          Overwrite(character_state_file, ThreadLedgerWrites.character_state)
    /\ written' = written \cup {<<"character_state", 0>>}
    /\ stage' = "fin_write_summary"
    /\ UNCHANGED <<ivars, parked, filename_set, filename_dir, outline_file,
                   chapter_file, global_summary_file, plot_arcs_file, vectorstore,
                   locals, calls, outcome, pre, history, ops>>

\* lines 748-749
ThreadWriteSummary ==
    /\ stage = "fin_write_summary"
    /\ global_summary_file' =
          Overwrite(global_summary_file, ThreadLedgerWrites.global_summary)
    /\ written' = written \cup {<<"global_summary", 0>>}
    /\ stage' = "fin_write_arcs"
    /\ UNCHANGED <<ivars, parked, filename_set, filename_dir, outline_file,
                   chapter_file, character_state_file, plot_arcs_file, vectorstore,
                   locals, calls, outcome, pre, history, ops>>

\* lines 751-752
ThreadWritePlotArcs ==
    /\ stage = "fin_write_arcs"
    /\ plot_arcs_file' = Overwrite(plot_arcs_file, ThreadLedgerWrites.plot_arcs)
    /\ written' = written \cup {<<"plot_arcs", 0>>}
    /\ stage' = "fin_vector"
    /\ UNCHANGED <<ivars, parked, filename_set, filename_dir, outline_file,
                   chapter_file, character_state_file, global_summary_file,
                   vectorstore, locals, calls, outcome, pre, history, ops>>

\* the threads of the program that call finalize_chapter, once each
Threads == { "first", "second" }

\* a thread calls finalize_chapter
ThreadStart(n, w) ==
    /\ ops < Cardinality(Threads)
    /\ FinalizeStart(n, w)

\* a project in which chapter 1 has been drafted, at full length, and nothing
\* finalized
DraftedInit ==
    /\ InvokeOnly
    /\ PipelineIdle
    /\ \E draft \in { r \in InvokeResults : ~IsTooShort(r, 10) } :
          chapter_file = [n \in Chapters |-> IF n = 1 THEN draft ELSE <<>>]

ThreadsNext ==
    \/ \E n \in Chapters, w \in WordNumbers : ThreadStart(n, w)
    \/ \E r \in ShortResults : FinalizeSummary(r)
    \/ \E r \in ShortResults : FinalizeCharState(r)
    \/ \E r \in ShortResults : ThreadPlotArcs(r)
    \/ ThreadWriteCharState
    \/ ThreadWriteSummary
    \/ ThreadWritePlotArcs
    \/ FinalizeVector
    \/ FinalizeVectorError
    \/ ProviderError
    \/ BackToCaller
    \/ Switch

SpecThreads == DraftedInit /\ [][ThreadsNext]_vars

PipelineInit ==
    /\ InvokeOnly
    /\ PipelineIdle
    /\ \E blank \in {<<>>, <<"\n">>} :
          chapter_file = [n \in Chapters |-> blank]

Next ==
    \/ SettingStart
    \/ \E r \in OneResult : SettingBase(r)
    \/ \E r \in OneResult : SettingCharacter(r)
    \/ \E r \in OneResult : SettingDarkLines(r)
    \/ \E r \in SettingResults : SettingFinal(r)
    \/ DirectoryStart
    \/ \E r \in InvokeResults : DirectoryGenerate(r)
    \/ \E n \in Chapters, g \in Guidances, b \in Briefs : DraftStart(n, g, b)
    \/ \E n \in Chapters, g \in Guidances, b \in Briefs : DraftRetrievalError(n, g, b)
    \/ \E r \in OneResult : DraftOutline(r)
    \/ \E r \in InvokeResults : DraftProse(r)
    \/ \E n \in Chapters, w \in WordNumbers : FinalizeStart(n, w)
    \/ \E r \in InvokeResults : FinalizeEnrich(r)
    \/ \E r \in ShortResults : FinalizeSummary(r)
    \/ \E r \in OneResult : FinalizeCharState(r)
    \/ \E r \in OneResult : FinalizePlotArcs(r)
    \/ \E f \in KnowledgeFiles : ImportKnowledge(f)
    \/ FinalizeVector
    \/ FinalizeVectorError
    \/ ProviderError
    \/ BackToCaller

Spec == PipelineInit /\ [][Next]_vars

\* the chunker on its own
SpecChunk == PipelineInit /\ [][ChunkNext]_vars

(***************************************************************************)
(* split_by_length, lines 880-888, one iteration of its loop at a time.     *)
(***************************************************************************)
\* the longest text that is split
MaxTextLength == 3

\* the iterations after which a loop that is still running is left alone;
\* more than a text has characters, so that no loop that ends is cut short
MaxIterations == 4

\* the texts that are split
SplitTexts == SeqsUpTo({"a", " "}, MaxTextLength)

\* the max_length arguments: negative, zero and positive
SplitMaxLengths == -1..ModelMaxLength

\* a slice index as Python reads it: a negative one counts from the end, and
\* both kinds are brought into 0..len
SliceIndex(i, len) ==
    IF i < 0 THEN (IF i + len < 0 THEN 0 ELSE i + len) ELSE Min(i, len)

\* text[start:end]
PySlice(text, start, end) ==
    SubSeq(text, SliceIndex(start, Len(text)) + 1, SliceIndex(end, Len(text)))

\* an end index that is one past the start, whatever max_length
EndIdxNext(start_idx, max_length, len) == Min(start_idx + 1, len)

\* line 884: min(start_idx + max_length, len(text))
EndIdx(start_idx, max_length, len) == Min(start_idx + max_length, len)

\* lines 880-882
SplitLoopStart(text, max_length) ==
    /\ stage = "idle"
    /\ stage' = "split_loop"
    /\ locals' = [ op |-> "split_by_length", text |-> text,
                   max_length |-> max_length, start_idx |-> 0, segments |-> <<>> ]
    /\ UNCHANGED <<ivars, parked, files, vectorstore, calls, written, outcome, pre,
                   history, ops>>

\* lines 883-887: one iteration
SplitLoopIterate ==
    /\ stage = "split_loop"
    /\ locals.start_idx < Len(locals.text)
    /\ Len(locals.segments) < MaxIterations
    /\ LET end_idx == EndIdx(locals.start_idx, locals.max_length, Len(locals.text))
           segment == PySlice(locals.text, locals.start_idx, end_idx)
       IN  locals' = [locals EXCEPT !.segments = Append(@, strip(segment)),
                                    !.start_idx = end_idx]
    /\ UNCHANGED <<ivars, parked, files, vectorstore, stage, calls, written, outcome,
                   pre, history, ops>>

\* lines 883 and 888: the loop is left and the segments returned
SplitLoopReturn ==
    /\ stage = "split_loop"
    /\ ~(locals.start_idx < Len(locals.text))
    /\ Leave("returned")
    /\ UNCHANGED <<ivars, parked, files, vectorstore, locals, calls, written, pre,
                   history, ops>>

SplitLoopNext ==
    \/ \E text \in SplitTexts, max_length \in SplitMaxLengths :
          SplitLoopStart(text, max_length)
    \/ SplitLoopIterate
    \/ SplitLoopReturn
    \/ BackToCaller

\* the loop runs on: nothing but its own condition stops it
SpecSplitLoop ==
    /\ PipelineInit
    /\ [][SplitLoopNext]_vars
    /\ WF_vars(SplitLoopIterate)
    /\ WF_vars(SplitLoopReturn)

(***************************************************************************)
(* generate_chapter_draft on a project whose vector store has been filled. *)
(***************************************************************************)
\* the most documents the store holds when the drafts start
MaxStore == 3

\* documents found in a store: a finalized chapter or a paragraph of a
\* knowledge file, and the empty text split_by_length makes of a slice of
\* white space (line 886)
StoredDocuments == { <<"x">>, <<>> }

\* user_guidance arguments, one of white space among them
DraftGuidances == Guidances \cup { <<" ">> }

\* a project with a vector store and nothing drafted
IndexedInit ==
    /\ InvokeOnly
    /\ filename_set = <<>>
    /\ filename_dir = <<>>
    /\ outline_file = [n \in Chapters |-> <<>>]
    /\ chapter_file = [n \in Chapters |-> <<>>]
    /\ character_state_file = <<>>
    /\ global_summary_file = <<>>
    /\ plot_arcs_file = <<>>
    /\ vectorstore \in SeqsUpTo(StoredDocuments, MaxStore)
    /\ stage = "idle"
    /\ locals = NoLocals
    /\ calls = <<>>
    /\ written = {}
    /\ outcome = "none"
    /\ pre = NoLocals
    /\ history = <<>>
    /\ ops = 0
    /\ parked = NoCall

DraftNext ==
    \/ \E n \in Chapters, g \in DraftGuidances, b \in Briefs : DraftStart(n, g, b)
    \/ \E n \in Chapters, g \in DraftGuidances, b \in Briefs :
          DraftRetrievalError(n, g, b)
    \/ \E r \in ShortResults : DraftOutline(r)
    \/ \E r \in OneResult : DraftProse(r)
    \/ ProviderError
    \/ BackToCaller

SpecDraft == IndexedInit /\ [][DraftNext]_vars

(***************************************************************************)
(* Claims about invoke_with_cleaning.                                       *)
(***************************************************************************)
\* the buffer does not end with the sentinel once surrounding whitespace is
\* trimmed
LacksSentinel(buffer) ==
    LET t == strip(buffer)
    IN  ~(Len(t) >= 3 /\ t[Len(t)] = "#" /\ t[Len(t) - 1] = "#" /\ t[Len(t) - 2] = "#")

\* the buffer as it stands when exchange k is over: the non-empty increments
\* of the exchanges 1..k, in order of arrival
BufferAfter(k) == Flatten(SelectNonEmpty(Flatten(SubSeq(exchanges, 1, k))))

\* the number of exchanges among 1..k after which the buffer lacked the
\* sentinel
LackingCount(k) == Cardinality({i \in 1..k : LacksSentinel(BufferAfter(i))})

\* a text with its trailing sentinel removed
WithoutSentinel(text) ==
    IF endswith(text, Sentinel) THEN SubSeq(text, 1, Len(text) - 3) ELSE text

\* C1: whenever invoke_with_cleaning returns, the returned text is the
\* concatenation of the non-empty increments of all exchanges, in order, with
\* the think spans removed and the sentinel removed; the returned text does
\* not end with the sentinel.
C1_ReturnOmitsSentinel ==
    pc = "returned" =>
        /\ result = WithoutSentinel(CleanedReturn(BufferAfter(Len(exchanges))))
        /\ ~endswith(result, Sentinel)

\* C2: the number of stream requests of a call is 1 plus the number of
\* completed exchanges after which the (trimmed) buffer lacked the sentinel:
\* every exchange that was followed by a request lacked it, the exchange a
\* return follows does not, and one request is issued when the first
\* exchange already ends with it.
C2_RequestPerMissingSentinel ==
    /\ pc \in {"stream", "raised"} =>
          /\ Len(requests) = 1 + LackingCount(Len(exchanges) - 1)
          /\ \A k \in 1..(Len(exchanges) - 1) : LacksSentinel(BufferAfter(k))
    /\ pc = "returned" =>
          /\ Len(requests) = 1 + LackingCount(Len(exchanges))
          /\ ~LacksSentinel(BufferAfter(Len(exchanges)))
          /\ (~LacksSentinel(BufferAfter(1)) => Len(requests) = 1)

\* a call returned after exactly one continuation, the sentinel's last
\* character arriving in the second exchange
C2_Witness ==
    /\ pc = "returned"
    /\ Len(requests) = 2
    /\ LackingCount(2) = 1
    /\ exchanges[1] # <<>>

\* C3: a call either returns, and then from a buffer that ends with the
\* sentinel once trimmed, or raises the provider's error; after an error no
\* request is issued and nothing is returned.
C3_ReturnOnlyWithSentinel ==
    /\ [](pc = "returned" => ~LacksSentinel(msg) /\ msg = BufferAfter(Len(exchanges)))
    /\ [](pc = "raised" => result = <<>>)
    /\ [][pc' = "returned" => pc = "check" /\ ~LacksSentinel(msg)]_vars
    /\ [][pc = "raised" => pc' = "raised" /\ requests' = requests /\ result' = result]_vars

\* the provider raised in the continuation exchange, after content arrived
C3_Witness ==
    /\ pc = "raised"
    /\ Len(requests) = 2
    /\ msg # <<>>
    /\ LacksSentinel(msg)

\* C4: once an exchange is over and the buffer ends with the sentinel, the
\* call returns; if no exchange ever ends with the sentinel in the buffer and
\* the provider never raises, the call never returns and continuation
\* requests are issued again and again.
C4_NoIterationCap ==
    /\ (pc = "check" /\ ~LacksSentinel(msg)) ~> (pc = "returned")
    /\ ([](pc = "check" => LacksSentinel(msg)) /\ [](pc # "raised"))
          => ([](pc # "returned") /\ []<><<LiveContinue>>_vars)

\* a continuation exchange is running on a full buffer without the sentinel
C4_Witness ==
    /\ pc = "stream"
    /\ before_len = Len(msg)
    /\ Len(msg) >= MaxBuffer - 1
    /\ LacksSentinel(msg)

(***************************************************************************)
(* Claims about finalize_chapter and generate_chapter_draft.                *)
(***************************************************************************)
\* a finalize_chapter call is running or has just ended
InFinalize == stage # "idle" /\ locals.op = "finalize"

\* a file content that is empty or made of whitespace only
Blank(content) == \A i \in DOMAIN content : IsSpace(content[i])

\* the draft as the running call found it, trimmed
PreDraft == strip(pre.chapter_file[locals.novel_number])

\* the text is shorter than 80% of the target
Below80(text, target) == 10 * Len(text) < 8 * target

\* the enrichment requests the running call has issued and seen answered
EnrichCalls == SelectSeq(calls, LAMBDA c : c.kind = "enrich")

\* the chapter text the running call consolidates: the answer of the
\* enrichment when the draft was below 80% of the target, else the draft
ConsolidatedText ==
    IF Below80(PreDraft, locals.word_number) THEN calls[1].response ELSE PreDraft

\* C5, as claimed: a finalize call on a non-empty draft below 80% of the
\* target, once it has returned, leaves a chapter file that differs from the
\* draft it found and is strictly longer than it, whatever the Generator
\* answered.
C5_EnrichedDraftIsLonger ==
    ( /\ InFinalize
      /\ stage = "done"
      /\ outcome = "returned"
      /\ ~Blank(pre.chapter_file[locals.novel_number])
      /\ Below80(PreDraft, locals.word_number) )
    => /\ chapter_file[locals.novel_number] # pre.chapter_file[locals.novel_number]
       /\ Len(chapter_file[locals.novel_number])
             > Len(pre.chapter_file[locals.novel_number])

\* C5, amended: a finalize call on a non-empty draft below 80% of the target
\* asks for one enrichment of that draft and, once it is answered, the chapter
\* file holds exactly the answer (overwritten, whether or not the answer
\* differs from the draft or is longer), and stays so for the rest of the
\* call; until the answer no file has changed.
C5_EnrichedDraftIsResponse ==
    ( /\ InFinalize
      /\ ~Blank(pre.chapter_file[locals.novel_number])
      /\ Below80(PreDraft, locals.word_number) )
    => /\ (calls = <<>>) =>
              /\ stage \in {"fin_enrich", "done"}
              /\ stage = "done" => outcome = "raised"
              /\ chapter_file = pre.chapter_file
       /\ (calls # <<>>) =>
              /\ Len(EnrichCalls) = 1
              /\ calls[1].kind = "enrich"
              /\ calls[1].chapter_text = PreDraft
              /\ calls[1].word_number = locals.word_number
              /\ chapter_file[locals.novel_number] = calls[1].response
              /\ \A m \in Chapters \ {locals.novel_number} :
                    chapter_file[m] = pre.chapter_file[m]

\* a finalize call has returned whose enrichment answer is shorter than the
\* draft it replaced
C5_Witness ==
    /\ InFinalize
    /\ stage = "done"
    /\ outcome = "returned"
    /\ Below80(PreDraft, locals.word_number)
    /\ Len(EnrichCalls) = 1
    /\ PreDraft # <<>>
    /\ Len(chapter_file[locals.novel_number]) < Len(PreDraft)

\* C6: a finalize call issues at most one enrichment request, and none when
\* the draft is at or above 80% of the target (a draft of exactly 80% counts
\* as at or above); in that case the call never writes the chapter file and
\* the persisted drafts are unchanged.
C6_AtMostOneEnrichment ==
    InFinalize =>
        /\ Len(EnrichCalls) <= 1
        /\ ( /\ ~Blank(pre.chapter_file[locals.novel_number])
             /\ ~Below80(PreDraft, locals.word_number) )
           => /\ stage # "fin_enrich"
              /\ Len(EnrichCalls) = 0
              /\ \A n \in Chapters : <<"chapter", n>> \notin written
              /\ chapter_file = pre.chapter_file

\* a finalize call has returned on a draft of exactly 80% of the target, after
\* its three consolidation requests and no other
C6_Witness ==
    /\ InFinalize
    /\ stage = "done"
    /\ outcome = "returned"
    /\ 10 * Len(PreDraft) = 8 * locals.word_number
    /\ Len(calls) = 3
    /\ Len(EnrichCalls) = 0
    /\ chapter_file = pre.chapter_file

\* C7: finalize on a chapter whose draft is empty or whitespace only is a
\* no-op: the call ends at once and without an exception, no Generator request
\* is issued, no file is written (the three ledgers and the chapter file are
\* as before) and nothing is inserted into the vector store.
C7_EmptyDraftIsNoOp ==
    (InFinalize /\ Blank(pre.chapter_file[locals.novel_number]))
    => /\ stage = "done"
       /\ outcome = "noop"
       /\ calls = <<>>
       /\ written = {}
       /\ Snapshot = pre
       /\ vectorstore = pre.vectorstore

\* finalize has ended on a draft that holds whitespace only
C7_Witness ==
    /\ InFinalize
    /\ stage = "done"
    /\ outcome = "noop"
    /\ pre.chapter_file[locals.novel_number] # <<>>
    /\ Blank(pre.chapter_file[locals.novel_number])

\* C8: generate_chapter_draft never modifies the global summary, the
\* character state, the plot arcs or the vector store, whether it returns or
\* is ended by a provider error; the only files it writes are the outline and
\* the chapter file of the chapter number it was called with.
C8_DraftWritesOnlyItsChapter ==
    (stage # "idle" /\ locals.op = "draft")
    => /\ character_state_file = pre.character_state_file
       /\ global_summary_file = pre.global_summary_file
       /\ plot_arcs_file = pre.plot_arcs_file
       /\ vectorstore = pre.vectorstore
       /\ filename_set = pre.filename_set
       /\ filename_dir = pre.filename_dir
       /\ written \subseteq { <<"outline", locals.novel_number>>,
                              <<"chapter", locals.novel_number>> }
       /\ \A m \in Chapters \ {locals.novel_number} :
             /\ outline_file[m] = pre.outline_file[m]
             /\ chapter_file[m] = pre.chapter_file[m]

\* a draft of chapter 2 has returned in a project whose ledgers and vector
\* store are not empty, having written its outline and its chapter file
C8_Witness ==
    /\ stage = "done"
    /\ locals.op = "draft"
    /\ locals.novel_number = 2
    /\ outcome = "returned"
    /\ written = { <<"outline", 2>>, <<"chapter", 2>> }
    /\ chapter_file[2] # pre.chapter_file[2]
    /\ vectorstore # <<>>
    /\ global_summary_file # <<>>
    /\ character_state_file # <<>>
    /\ plot_arcs_file # <<>>

\* C9: with the operations run one after the other, each ledger is the left
\* fold of its consolidation over the finalized chapter texts in call order.
\* A finalize call that has persisted the ledgers has asked for each of them
\* with that ledger's own value as the call found it and with the (possibly
\* enriched) chapter text, and each file holds the answer alone; the ledgers
\* start empty and nothing but that step of finalize changes them, so the
\* value a call finds is the one the previous finalize persisted.
C9_LedgersFoldOverFinalizedChapters ==
    /\ [](ops = 0 =>
             /\ character_state_file = <<>>
             /\ global_summary_file = <<>>
             /\ plot_arcs_file = <<>>)
    /\ []((InFinalize /\ stage = "fin_arcs") => ledgers = <<pre.character_state_file,
                                                           pre.global_summary_file,
                                                           pre.plot_arcs_file>>)
    /\ []((InFinalize /\ <<"plot_arcs", 0>> \in written) =>
             LET k == Len(calls)
             IN  /\ k >= 3
                 /\ calls[k - 2].kind = "summary"
                 /\ calls[k - 2].old = pre.global_summary_file
                 /\ calls[k - 2].chapter_text = ConsolidatedText
                 /\ global_summary_file = calls[k - 2].response
                 /\ calls[k - 1].kind = "character"
                 /\ calls[k - 1].old = pre.character_state_file
                 /\ calls[k - 1].chapter_text = ConsolidatedText
                 /\ character_state_file = calls[k - 1].response
                 /\ calls[k].kind = "arcs"
                 /\ calls[k].old = pre.plot_arcs_file
                 /\ calls[k].chapter_text = ConsolidatedText
                 /\ plot_arcs_file = calls[k].response)
    /\ [][ledgers' # ledgers => (InFinalize /\ stage = "fin_arcs"
                                   /\ stage' = "fin_vector")]_vars

\* a second finalize has returned: it found the summary the first one wrote
\* and replaced it with a different one
C9_Witness ==
    /\ InFinalize
    /\ stage = "done"
    /\ outcome = "returned"
    /\ pre.global_summary_file # <<>>
    /\ pre.character_state_file # <<>>
    /\ pre.plot_arcs_file # <<>>
    /\ global_summary_file # pre.global_summary_file
    /\ Len(history) = 2

\* the texts of the insertions recorded in h, in order
RECURSIVE InsertedTexts(_)
InsertedTexts(h) ==
    IF h = <<>> THEN <<>> ELSE Head(h).texts \o InsertedTexts(Tail(h))

\* C10: a finalize call that runs to completion adds exactly one entry to the
\* vector store, whose text is the (possibly enriched) chapter text the call
\* consolidated; no step of draft, finalize or import removes or merges
\* entries: every step keeps the entries there are, in place, and the store
\* holds every text ever inserted, so k finalize calls on one chapter leave k
\* entries for it, and the first finalize of a project leaves exactly one.
C10_OneEntryPerFinalize ==
    /\ []((InFinalize /\ stage = "done" /\ outcome = "returned") =>
             /\ Len(vectorstore) = Len(pre.vectorstore) + 1
             /\ SubSeq(vectorstore, 1, Len(pre.vectorstore)) = pre.vectorstore
             /\ vectorstore[Len(vectorstore)] = ConsolidatedText
             /\ \A i \in DOMAIN calls :
                   calls[i].kind # "enrich" => calls[i].chapter_text = ConsolidatedText)
    /\ []((InFinalize /\ ~(stage = "done" /\ outcome = "returned")) =>
             vectorstore = pre.vectorstore)
    /\ [](vectorstore = InsertedTexts(history))
    /\ [][/\ Len(vectorstore') >= Len(vectorstore)
          /\ SubSeq(vectorstore', 1, Len(vectorstore)) = vectorstore]_vars
    /\ [][vectorstore' # vectorstore =>
             \/ stage = "fin_vector" /\ stage' = "done" /\ outcome' = "returned"
             \/ stage = "idle" /\ locals'.op = "import"]_vars

\* the same chapter has been finalized twice, unchanged in between: the store
\* holds its text twice
C10_Witness ==
    /\ InFinalize
    /\ stage = "done"
    /\ outcome = "returned"
    /\ Len(vectorstore) = 2
    /\ vectorstore[1] = vectorstore[2]
    /\ vectorstore[2] = strip(chapter_file[locals.novel_number])
    /\ Len(history) = 2
    /\ \A i \in 1..2 : history[i].op = "finalize"

\* the kinds of the requests the running call has seen answered, in order
CallKinds == [i \in DOMAIN calls |-> calls[i].kind]

\* p is a prefix of q
IsPrefix(p, q) == Len(p) <= Len(q) /\ SubSeq(q, 1, Len(p)) = p

\* the requests of a finalize call, in the order of the steps
FinalizeRequestOrder ==
    (IF Below80(PreDraft, locals.word_number) THEN <<"enrich">> ELSE <<>>)
    \o <<"summary", "character", "arcs">>

\* C11: finalize takes its steps in a fixed order (enrichment and draft
\* overwrite when due, the three consolidation requests, the three ledger
\* writes, the insert into the vector store) and rolls nothing back: a file
\* written by the call keeps what was written until the call is over and after
\* it, also when a later step fails; when the insert fails the enriched draft
\* and the three new ledgers are on disk.
C11_FixedOrderNoRollback ==
    /\ [](InFinalize =>
             /\ IsPrefix(CallKinds, FinalizeRequestOrder)
             /\ (<<"chapter", locals.novel_number>> \in written) =>
                    (calls # <<>> /\ calls[1].kind = "enrich")
             /\ (LedgerFiles \cap written # {}) =>
                    (LedgerFiles \subseteq written /\ CallKinds = FinalizeRequestOrder)
             /\ (vectorstore # pre.vectorstore) =>
                    (LedgerFiles \subseteq written /\ stage = "done"))
    /\ []((InFinalize /\ stage = "done" /\ outcome = "raised") =>
             /\ vectorstore = pre.vectorstore
             /\ (<<"chapter", locals.novel_number>> \in written) =>
                    chapter_file[locals.novel_number] = calls[1].response
             /\ (LedgerFiles \subseteq written) =>
                    /\ global_summary_file = calls[Len(calls) - 2].response
                    /\ character_state_file = calls[Len(calls) - 1].response
                    /\ plot_arcs_file = calls[Len(calls)].response)
    /\ [][(InFinalize /\ stage' # "idle") =>
             /\ written \subseteq written'
             /\ (<<"chapter", locals.novel_number>> \in written) =>
                    chapter_file' = chapter_file
             /\ (LedgerFiles \subseteq written) => ledgers' = ledgers]_vars
    /\ [][stage = "done" => (files' = files /\ vectorstore' = vectorstore)]_vars

\* the insert into the vector store has failed after an enrichment: the
\* enriched draft and the three new ledgers are on disk
C11_Witness ==
    /\ InFinalize
    /\ stage = "done"
    /\ outcome = "raised"
    /\ written = LedgerFiles \cup { <<"chapter", locals.novel_number>> }
    /\ chapter_file[locals.novel_number] # pre.chapter_file[locals.novel_number]
    /\ global_summary_file # pre.global_summary_file
    /\ character_state_file # pre.character_state_file
    /\ plot_arcs_file # pre.plot_arcs_file
    /\ vectorstore = pre.vectorstore

\* the Generator's output is empty: the answer holds nothing but the sentinel
EmptyOutput(response) == strip(WithoutSentinel(response)) = <<>>

\* the value the claim has a ledger hold after a consolidation request
ClaimedLedger(old, response) == IF EmptyOutput(response) THEN old ELSE response

\* C12: for each of the three consolidation requests of finalize on its own:
\* when the Generator's output is empty the ledger persisted is the old
\* ledger, unmodified, and else it is the returned text; so a ledger that was
\* not empty before a finalize call is not empty after it.
C12_EmptyOutputKeepsOldLedger ==
    (InFinalize /\ LedgerFiles \subseteq written) =>
        /\ global_summary_file =
              ClaimedLedger(pre.global_summary_file, calls[Len(calls) - 2].response)
        /\ character_state_file =
              ClaimedLedger(pre.character_state_file, calls[Len(calls) - 1].response)
        /\ plot_arcs_file =
              ClaimedLedger(pre.plot_arcs_file, calls[Len(calls)].response)
        /\ (pre.global_summary_file # <<>>) => (global_summary_file # <<>>)
        /\ (pre.character_state_file # <<>>) => (character_state_file # <<>>)
        /\ (pre.plot_arcs_file # <<>>) => (plot_arcs_file # <<>>)

(***************************************************************************)
(* Claims about Novel_directory_generate and Novel_setting_generate.        *)
(***************************************************************************)
\* a Novel_directory_generate call is running or has just ended
InDirectory == stage # "idle" /\ locals.op = "directory"

\* C13: Novel_directory_generate called when Novel_setting.txt is absent,
\* empty or whitespace only is a no-op: the call ends at once and without an
\* exception, no Generator request is issued, and Novel_directory.txt, every
\* other file and the vector store are as before.
C13_DirectoryWithoutSettingIsNoOp ==
    (InDirectory /\ Blank(pre.filename_set))
    => /\ stage = "done"
       /\ outcome = "noop"
       /\ calls = <<>>
       /\ written = {}
       /\ Snapshot = pre

\* the call has ended on a setting that holds whitespace only
C13_Witness ==
    /\ InDirectory
    /\ stage = "done"
    /\ outcome = "noop"
    /\ pre.filename_set # <<>>
    /\ Blank(pre.filename_set)

\* a Novel_setting_generate call is running or has just ended
InSetting == stage # "idle" /\ locals.op = "setting"

\* C14: Novel_setting_generate is idempotent on Novel_setting.txt: the file is
\* cleared and then written, so after a call that returned it holds the
\* cleaned answer to the fourth request and nothing of what it held before;
\* a second run on the same inputs with a Generator that answers the same
\* leaves the file byte-identical to what the first run left.
C14_SettingOverwriteIdempotent ==
    (InSetting /\ stage = "done" /\ outcome = "returned")
    => /\ Len(calls) = 4
       /\ filename_set = RemoveChars(calls[4].response, {"#", "*"})
       /\ (pre.filename_set = RemoveChars(calls[4].response, {"#", "*"}))
             => (filename_set = pre.filename_set)

\* a second run has returned with the answer the first run got, on a setting
\* that was not empty: the file is as the first run left it
C14_Witness ==
    /\ InSetting
    /\ stage = "done"
    /\ outcome = "returned"
    /\ ops = 2
    /\ pre.filename_set # <<>>
    /\ pre.filename_set = RemoveChars(calls[4].response, {"#", "*"})
    /\ filename_set = pre.filename_set

(***************************************************************************)
(* Claims about advanced_split_content and import_knowledge_file.           *)
(***************************************************************************)
\* an advanced_split_content call has returned
SplitDone == stage = "done" /\ locals.op = "split"

\* the ways to cut a sequence into consecutive non-empty groups
RECURSIVE Groupings(_)
Groupings(s) ==
    IF s = <<>> THEN { <<>> }
    ELSE UNION { { <<SubSeq(s, 1, k)>> \o g : g \in Groupings(SubSeq(s, k + 1, Len(s))) } :
                   k \in 1..Len(s) }

\* the sentences of a group, joined by single spaces
RECURSIVE SpaceJoined(_)
SpaceJoined(group) ==
    IF Len(group) = 1 THEN group[1]
    ELSE group[1] \o <<" ">> \o SpaceJoined(Tail(group))

\* a text without its whitespace
RECURSIVE NoSpace(_)
NoSpace(text) ==
    IF text = <<>> THEN <<>>
    ELSE (IF IsSpace(Head(text)) THEN <<>> ELSE <<Head(text)>>) \o NoSpace(Tail(text))

\* the texts of a sequence, one after the other
RECURSIVE Concatenated(_)
Concatenated(texts) ==
    IF texts = <<>> THEN <<>> ELSE Head(texts) \o Concatenated(Tail(texts))

\* every sentence lies whole in exactly one segment, in input order: the
\* segments are the groups of some cut of the sentence sequence
SentencesKeptWhole(sentences, segments) ==
    \E g \in Groupings(sentences) :
        segments = [j \in DOMAIN g |-> SpaceJoined(g[j])]

SliceCount(len, n) == (len + n - 1) \div n

\* the consecutive slices of n characters of a text (the last one may be
\* shorter), each trimmed
TrimmedSlices(text, n) ==
    [ k \in 1..SliceCount(Len(text), n) |->
        strip(SubSeq(text, (k - 1) * n + 1,
                     IF k * n < Len(text) THEN k * n ELSE Len(text))) ]

\* the merged segments with every one longer than n replaced by its slices
SlicedWhereLonger(merged, n) ==
    Concatenated([ j \in DOMAIN merged |->
                     IF Len(merged[j]) > n THEN TrimmedSlices(merged[j], n)
                     ELSE <<merged[j]>> ])

\* C16: for every input and every max_length >= 1 no segment the chunker
\* returns is longer than max_length: the segments are those of a merge of
\* consecutive sentences in which every merged segment longer than max_length
\* is replaced by its consecutive slices of exactly max_length characters (the
\* last may be shorter), each trimmed, and every other merged segment is
\* passed through unchanged.
C16_NoSegmentLongerThanMaxLength ==
    SplitDone =>
        /\ locals.max_length >= 1
        /\ \A j \in DOMAIN locals.final_segments :
              Len(locals.final_segments[j]) <= locals.max_length
        /\ \E g \in Groupings(locals.sentences) :
              locals.final_segments =
                  SlicedWhereLonger([j \in DOMAIN g |-> SpaceJoined(g[j])],
                                    locals.max_length)

\* two sentences were merged into a segment of five characters and cut at
\* max_length 2 into three slices, two of them trimmed of a space
C16_Witness ==
    /\ SplitDone
    /\ locals.max_length = 2
    /\ locals.sentences = << <<"a">>, <<"b", " ", "c">> >>
    /\ locals.final_segments = << <<"a">>, <<"b">>, <<"c">> >>

\* an import_knowledge_file call has ended
ImportDone == stage = "done" /\ locals.op = "import"

\* the files other than the vector store are as the call found them
ArtifactsUntouched ==
    /\ filename_set = pre.filename_set
    /\ filename_dir = pre.filename_dir
    /\ outline_file = pre.outline_file
    /\ chapter_file = pre.chapter_file
    /\ character_state_file = pre.character_state_file
    /\ global_summary_file = pre.global_summary_file
    /\ plot_arcs_file = pre.plot_arcs_file

FinalizeReturned(c) ==
    c.stage = "done" /\ c.outcome = "returned" /\ c.locals.op = "finalize"

\* the answer the call c got to its request of the given kind
AnswerTo(c, kind) ==
    c.calls[CHOOSE i \in DOMAIN c.calls : c.calls[i].kind = kind].response

\* the old value the call c gave in its request of the given kind
OldGivenTo(c, kind) ==
    c.calls[CHOOSE i \in DOMAIN c.calls : c.calls[i].kind = kind].old

\* both threads have finalized the same chapter and have returned, and both
\* found the files and the store in the same state: the second passed the
\* empty-draft check and read the ledgers before the first wrote
BothFinalizedFromSameState ==
    /\ FinalizeReturned(Running)
    /\ FinalizeReturned(parked)
    /\ locals.novel_number = parked.locals.novel_number
    /\ pre = parked.pre

\* C18: nothing keeps two finalize calls on the same chapter apart.  When
\* they interleave so that both pass the empty-draft check and read the same
\* old ledgers before either writes, both consolidate the same chapter text
\* from the same old ledgers, the vector store gets two insertions of that
\* text, and each ledger file holds the answer of one of the two calls, the
\* one that wrote the file last: a write puts the writer's own answer in the
\* file whatever the other call has written.
C18_NoMutualExclusion ==
    /\ [](BothFinalizedFromSameState =>
             /\ locals.chapter_text = parked.locals.chapter_text
             /\ Len(vectorstore) = Len(pre.vectorstore) + 2
             /\ SubSeq(vectorstore, 1, Len(pre.vectorstore)) = pre.vectorstore
             /\ vectorstore[Len(vectorstore) - 1] = locals.chapter_text
             /\ vectorstore[Len(vectorstore)] = locals.chapter_text
             /\ \A kind \in {"summary", "character", "arcs"} :
                   OldGivenTo(Running, kind) = OldGivenTo(parked, kind)
             /\ OldGivenTo(Running, "summary") = pre.global_summary_file
             /\ OldGivenTo(Running, "character") = pre.character_state_file
             /\ OldGivenTo(Running, "arcs") = pre.plot_arcs_file
             /\ global_summary_file \in { AnswerTo(Running, "summary"),
                                          AnswerTo(parked, "summary") }
             /\ character_state_file \in { AnswerTo(Running, "character"),
                                           AnswerTo(parked, "character") }
             /\ plot_arcs_file \in { AnswerTo(Running, "arcs"),
                                     AnswerTo(parked, "arcs") })
    /\ [][(parked' = parked) =>
             /\ (global_summary_file' # global_summary_file) =>
                    global_summary_file' = AnswerTo(Running, "summary")
             /\ (character_state_file' # character_state_file) =>
                    character_state_file' = AnswerTo(Running, "character")
             /\ (plot_arcs_file' # plot_arcs_file) =>
                    plot_arcs_file' = AnswerTo(Running, "arcs")]_vars
    /\ [][(parked' # parked) => UNCHANGED <<files, vectorstore>>]_vars

\* both calls on chapter 1 have returned from the same state: the store holds
\* the chapter twice, the summary is the one the running call wrote and the
\* different summary of the other call is lost
C18_Witness ==
    /\ BothFinalizedFromSameState
    /\ locals.novel_number = 1
    /\ pre.vectorstore = <<>>
    /\ vectorstore = <<locals.chapter_text, locals.chapter_text>>
    /\ global_summary_file = AnswerTo(Running, "summary")
    /\ global_summary_file # AnswerTo(parked, "summary")
    /\ character_state_file = AnswerTo(parked, "character")
    /\ character_state_file # AnswerTo(Running, "character")

(***************************************************************************)
(* Claims about the message history of invoke_with_cleaning.                *)
(***************************************************************************)
\* the contents of the assistant turns of a message list, one after the other
AssistantText(messages) ==
    Concatenated([ i \in 1..(Len(messages) \div 2) |-> messages[2 * i].content ])

\* C19: within one invoke_with_cleaning call the k-th stream request is sent
\* exactly 2k-1 messages, user and assistant in turn, the first being the
\* prompt with the sentinel directive; the messages of a request are those of
\* the request before it, unaltered, followed by two more; the j-th assistant
\* turn holds exactly the increments of the j-th exchange; and the assistant
\* turns put together are the accumulated buffer.
C19_HistoryCumulative ==
    /\ [](\A k \in DOMAIN requests :
             /\ Len(requests[k]) = 2 * k - 1
             /\ \A i \in DOMAIN requests[k] :
                   requests[k][i].role = IF i % 2 = 1 THEN "user" ELSE "assistant"
             /\ requests[k][1].content = Prompt \o SentinelDirective
             /\ (k > 1) => IsPrefix(requests[k - 1], requests[k])
             /\ \A j \in 1..(k - 1) :
                   requests[k][2 * j].content = Concatenated(exchanges[j])
             /\ AssistantText(requests[k]) = Concatenated(Concatenated(SubSeq(exchanges, 1, k - 1))))
    /\ [](pc \in {"check", "returned"} => AssistantText(chat_history) = msg)
    /\ [](pc = "stream" => /\ chat_history = requests[Len(requests)]
                           /\ AssistantText(chat_history) = SubSeq(msg, 1, before_len))
    /\ [][IsPrefix(chat_history, chat_history')]_vars

\* a third request has been sent, after two exchanges that both produced text
C19_Witness ==
    /\ Len(requests) = 3
    /\ Len(requests[3]) = 5
    /\ requests[3][2].content # <<>>
    /\ requests[3][4].content # <<>>
    /\ requests[3][2].content # requests[3][4].content

\* the requests of a Novel_setting_generate call, in the order of the stages
SettingRequestOrder == <<"base", "characters", "dark_lines", "final_setting">>

\* C20: Novel_setting_generate issues four requests, in the order base
\* setting, character setting, hidden conflicts, finalized setting, each after
\* the one before it has returned and each given the earlier answers it is
\* to consume: the characters request the base setting, the hidden-conflicts
\* request the characters, the final request all three.  Novel_setting.txt is
\* written only once the fourth request has returned, and no other file at
\* all, so a provider failure in any of the four stages leaves the setting as
\* it was.
C20_SettingFourStagesInOrder ==
    InSetting =>
        /\ IsPrefix(CallKinds, SettingRequestOrder)
        /\ (stage = "set_base") => (Len(calls) = 0)
        /\ (stage = "set_char") => (Len(calls) = 1)
        /\ (stage = "set_dark") => (Len(calls) = 2)
        /\ (stage = "set_final") => (Len(calls) = 3)
        /\ (stage = "done" /\ outcome = "returned") => (Len(calls) = 4)
        /\ (Len(calls) >= 2) => (calls[2].novel_setting = calls[1].response)
        /\ (Len(calls) >= 3) => (calls[3].character_info = calls[2].response)
        /\ (Len(calls) >= 4) =>
               /\ calls[4].novel_setting_base = calls[1].response
               /\ calls[4].character_setting = calls[2].response
               /\ calls[4].dark_lines = calls[3].response
        /\ (Len(calls) < 4) => (written = {} /\ Snapshot = pre)
        /\ (Len(calls) = 4) =>
               /\ written = { <<"Novel_setting", 0>> }
               /\ [Snapshot EXCEPT !.filename_set = pre.filename_set] = pre
        /\ (stage = "done" /\ outcome = "raised") =>
               (Len(calls) < 4 /\ filename_set = pre.filename_set)
        /\ outcome # "noop"

\* the provider has failed in the fourth stage, on a project that had a
\* setting: the setting is as before
C20_Witness ==
    /\ InSetting
    /\ stage = "done"
    /\ outcome = "raised"
    /\ Len(calls) = 3
    /\ pre.filename_set # <<>>
    /\ filename_set = pre.filename_set

(***************************************************************************)
(* Claims about the retrieval of generate_chapter_draft.                    *)
(***************************************************************************)
\* a draft call has retrieved its context
DraftRetrieved == locals.op = "draft" /\ "queries" \in DOMAIN locals

\* the guidance and the brief where they are not blank, then the fallback
ClaimedQueries(user_guidance, chapter_brief) ==
    (IF Blank(user_guidance) THEN <<>> ELSE <<user_guidance>>)
    \o (IF Blank(chapter_brief) THEN <<>> ELSE <<chapter_brief>>)
    \o <<FallbackQuery>>

\* the texts a query with k = 2 may return from a store: nothing when there
\* is no store, else two of its documents, or its only one
TopTwo(store) ==
    IF store = <<>> THEN { <<>> }
    ELSE IF Len(store) = 1 THEN { store[1] }
    ELSE { store[ij[1]] \o <<"\n">> \o store[ij[2]] :
             ij \in { p \in (1..Len(store)) \X (1..Len(store)) : p[1] # p[2] } }

\* the results that are not blank, each after a line break, from result i on
RECURSIVE ClaimedContext(_, _)
ClaimedContext(results, i) ==
    IF i > Len(results) THEN <<>>
    ELSE (IF Blank(results[i]) THEN <<>> ELSE <<"\n">> \o results[i])
         \o ClaimedContext(results, i + 1)

\* C21: in a draft the queries are the user guidance if it is not blank,
\* then the chapter brief if it is not blank, then the fixed fallback query,
\* so there are one to three of them and the last is the fallback; each
\* query is answered with at most two documents of the store (k = 2); the
\* results that are not blank are concatenated in the order of the queries,
\* repeated documents included; and the context is the "no relevant
\* content" placeholder exactly when no query returned a text that is not
\* blank, which is the case of a store that does not exist.
C21_RetrievalQueriesAndContext ==
    DraftRetrieved =>
        LET queries == locals.queries
            results == locals.partials
            nothing == \A i \in DOMAIN results : Blank(results[i])
        IN  /\ queries = ClaimedQueries(locals.user_guidance, locals.chapter_brief)
            /\ Len(queries) \in 1..3
            /\ queries[Len(queries)] = FallbackQuery
            /\ Len(results) = Len(queries)
            /\ \A i \in DOMAIN results : results[i] \in TopTwo(pre.vectorstore)
            /\ ~nothing => locals.relevant_context = ClaimedContext(results, 1)
            /\ (locals.relevant_context = NoContextPlaceholder) <=> nothing
            /\ pre.vectorstore = <<>> => locals.relevant_context = NoContextPlaceholder

\* three queries on a store of two empty documents and a third: the first
\* returned a line break only and is left out, the other two returned the
\* same text, which is in the context twice
C21_Witness ==
    /\ DraftRetrieved
    /\ stage = "draft_prose"
    /\ Len(locals.queries) = 3
    /\ locals.partials = << <<"\n">>, <<"x", "\n">>, <<"x", "\n">> >>
    /\ locals.relevant_context = <<"\n", "x", "\n", "\n", "x", "\n">>

(***************************************************************************)
(* Claims about the clustering of advanced_split_content.                   *)
(***************************************************************************)
\* the sum of the products of the components of two embeddings
Inner(u, v) == u[1] * v[1] + u[2] * v[2] + u[3] * v[3]

\* the cosine of two embeddings is at least 7/10
AtLeastThreshold(u, v) ==
    /\ Inner(u, v) > 0
    /\ 100 * Inner(u, v) * Inner(u, v) >= 49 * Inner(u, u) * Inner(v, v)

\* the mean of the centroid c.num / c.den and an embedding
MeanOf(c, e) ==
    [ num |-> [k \in 1..3 |-> c.num[k] + c.den * e[k]], den |-> 2 * c.den ]

\* the running centroid against which sentence i (i >= 2) is tested, and
\* whether sentence i passes the test
RECURSIVE RunningCentroid(_, _)
RECURSIVE Joins(_, _)
RunningCentroid(embeddings, i) ==
    IF i = 2 THEN [ num |-> embeddings[1], den |-> 1 ]
    ELSE IF Joins(embeddings, i - 1)
         THEN MeanOf(RunningCentroid(embeddings, i - 1), embeddings[i - 1])
         ELSE [ num |-> embeddings[i - 1], den |-> 1 ]

Joins(embeddings, i) ==
    AtLeastThreshold(RunningCentroid(embeddings, i).num, embeddings[i])

\* the sentences that open a segment: the first, and those that failed the
\* test
Openers(embeddings) ==
    {1} \cup { i \in 2..Len(embeddings) : ~Joins(embeddings, i) }

\* the sentences from the k-th opener to the one before the next opener
RunOf(sentences, openers, k) ==
    LET first == CHOOSE i \in openers :
                     Cardinality({ j \in openers : j < i }) = k - 1
        later == { j \in openers : j > first }
        last  == IF later = {} THEN Len(sentences)
                 ELSE (CHOOSE j \in later : \A l \in later : j <= l) - 1
    IN  SubSeq(sentences, first, last)

\* C22: the clustering is one forward pass with a running centroid, which
\* starts as the embedding of the first sentence; sentence i joins the open
\* segment exactly when the similarity of the centroid and its embedding is
\* at least the threshold (a similarity equal to the threshold joins), and
\* the centroid is then the mean of the centroid and that embedding;
\* otherwise the segment is closed and a new one opened with the embedding
\* of sentence i as centroid.  So, before the cut to max_length, there is one
\* segment more than there are sentences that failed the test, and every
\* segment is a run of consecutive sentences: a closed one is not reopened.
C22_SinglePassRunningCentroid ==
    (SplitDone /\ locals.sentences # <<>>) =>
        LET openers == Openers(locals.embeddings)
            merged  == locals.merged_paragraphs
        IN  /\ Len(merged) = 1 + Cardinality(openers \ {1})
            /\ \A k \in DOMAIN merged :
                  merged[k] = SpaceJoined(RunOf(locals.sentences, openers, k))

\* three sentences: the second joined the first at a similarity equal to the
\* threshold, and the third, which is close to the second but not to the
\* mean of the first two, opened a new segment
C22_Witness ==
    /\ SplitDone
    /\ locals.embeddings = << <<1, 1, 0>>, <<3, 4, 5>>, <<0, 0, 1>> >>
    /\ locals.sentences = << <<"a">>, <<"a">>, <<"a">> >>
    /\ locals.merged_paragraphs = << <<"a", " ", "a">>, <<"a">> >>
    /\ 100 * Inner(<<1, 1, 0>>, <<3, 4, 5>>) * Inner(<<1, 1, 0>>, <<3, 4, 5>>)
          = 49 * Inner(<<1, 1, 0>>, <<1, 1, 0>>) * Inner(<<3, 4, 5>>, <<3, 4, 5>>)
    /\ AtLeastThreshold(<<3, 4, 5>>, <<0, 0, 1>>)

(***************************************************************************)
(* Claims about the setting and directory files.                            *)
(***************************************************************************)
\* a text without its number signs and asterisks
WithoutMarkup(text) == SelectSeq(text, LAMBDA c : c \notin {"#", "*"})

\* a text holds a number sign or an asterisk
HasMarkup(text) == \E i \in DOMAIN text : text[i] \in {"#", "*"}

\* the answer to the request that has just returned
LastResponse == calls'[Len(calls')].response

\* C23: after any sequence of generate_setting and generate_directory calls
\* Novel_setting.txt and Novel_directory.txt hold no '#' and no '*', so that
\* no sentinel is left in them, and each file holds the output of its most
\* recent successful write only: a write replaces the content by the cleaned
\* answer, whatever the file held, and nothing else changes the file.
C23_SettingAndDirectoryFilesClean ==
    /\ [](~HasMarkup(filename_set) /\ ~HasMarkup(filename_dir))
    /\ [][ /\ (stage = "set_final" /\ outcome' = "returned")
                => filename_set' = WithoutMarkup(LastResponse)
           /\ (stage = "dir_gen" /\ outcome' = "returned")
                => filename_dir' = WithoutMarkup(LastResponse)
           /\ (filename_set' # filename_set)
                => (stage = "set_final" /\ outcome' = "returned")
           /\ (filename_dir' # filename_dir)
                => (stage = "dir_gen" /\ outcome' = "returned") ]_vars

\* a second generate_directory call got an answer with asterisks and the
\* sentinel, and the directory holds that answer without them, and nothing
\* of the directory the call found
C23_Witness ==
    /\ stage = "done"
    /\ locals.op = "directory"
    /\ outcome = "returned"
    /\ pre.filename_dir = <<"a">>
    /\ calls[1].response = <<"a", "*", "a", "a", "a", "#", "#", "#">>
    /\ filename_dir = <<"a", "a", "a", "a">>
    /\ ~HasMarkup(filename_set)
    /\ filename_set # <<>>

(***************************************************************************)
(* Claims about a provider error during the consolidation of finalize.      *)
(***************************************************************************)
\* the consolidation requests
ConsolidationKinds == { "summary", "character", "arcs" }

\* the consolidation requests that have returned in the running call
Consolidated == { k \in ConsolidationKinds : \E i \in DOMAIN calls : calls[i].kind = k }

\* a finalize call has ended with the error of a consolidation request: the
\* request that did not return is one of the three
RaisedInConsolidation ==
    /\ InFinalize
    /\ stage = "done"
    /\ outcome = "raised"
    /\ Len(calls) < Len(FinalizeRequestOrder)
    /\ FinalizeRequestOrder[Len(calls) + 1] \in ConsolidationKinds

\* the three ledger files are as the running call found them
LedgersAsFound ==
    /\ character_state_file = pre.character_state_file
    /\ global_summary_file = pre.global_summary_file
    /\ plot_arcs_file = pre.plot_arcs_file

\* C24: the three ledger files are written only after all three
\* consolidation requests have returned: when a provider error is raised
\* during the global-summary, the character-state or the plot-arc request no
\* ledger file is modified and nothing is inserted into the vector store,
\* although the same call may already have persisted an enriched draft.
C24_LedgersWrittenAfterAllConsolidations ==
    /\ (InFinalize /\ Consolidated # ConsolidationKinds) =>
           (LedgersAsFound /\ LedgerFiles \cap written = {}
              /\ vectorstore = pre.vectorstore)
    /\ RaisedInConsolidation =>
           /\ LedgersAsFound
           /\ LedgerFiles \cap written = {}
           /\ vectorstore = pre.vectorstore
           /\ filename_set = pre.filename_set
           /\ filename_dir = pre.filename_dir
           /\ outline_file = pre.outline_file
           /\ \A n \in Chapters :
                 chapter_file[n] # pre.chapter_file[n] =>
                     /\ n = locals.novel_number
                     /\ calls[1].kind = "enrich"
                     /\ chapter_file[n] = calls[1].response

\* the provider failed on the character-state request of a call that had
\* enriched the draft and got a new summary: the enriched draft is in the
\* chapter file and the summary file is as it was
C24_Witness ==
    /\ RaisedInConsolidation
    /\ CallKinds = <<"enrich", "summary">>
    /\ chapter_file[locals.novel_number] # pre.chapter_file[locals.novel_number]
    /\ calls[2].response # pre.global_summary_file
    /\ global_summary_file = pre.global_summary_file
    /\ vectorstore = pre.vectorstore

(***************************************************************************)
(* Claims about the order of the writes of generate_chapter_draft.          *)
(***************************************************************************)
\* a draft call is running or has just ended
InDraft == stage # "idle" /\ locals.op = "draft"

\* C25: in a draft the outline of chapter n is persisted, over any previous
\* outline, before the prose request is issued, and the chapter file is
\* written only after the prose request has returned: a provider failure
\* during the prose request leaves outline_n with the new outline and
\* chapter_n with its previous content; and the prose request is made with
\* the outline produced in the same call.
C25_OutlinePersistedBeforeProse ==
    InDraft =>
        LET n == locals.novel_number
        IN  /\ calls = <<>> =>
                   (outline_file[n] = pre.outline_file[n]
                      /\ chapter_file[n] = pre.chapter_file[n])
            /\ calls # <<>> =>
                   (calls[1].kind = "outline" /\ outline_file[n] = calls[1].response)
            /\ stage = "draft_prose" =>
                   /\ CallKinds = <<"outline">>
                   /\ locals.chapter_outline = calls[1].response
                   /\ chapter_file[n] = pre.chapter_file[n]
            /\ (stage = "done" /\ outcome = "raised" /\ CallKinds = <<"outline">>) =>
                   chapter_file[n] = pre.chapter_file[n]
            /\ chapter_file[n] # pre.chapter_file[n] => Len(calls) = 2
            /\ Len(calls) = 2 =>
                   /\ calls[2].kind = "prose"
                   /\ calls[2].chapter_outline = calls[1].response
                   /\ chapter_file[n] = calls[2].response

\* the provider failed on the prose request of a second draft of a chapter:
\* the outline file holds the new outline in place of the previous one, and
\* the chapter file the previous draft
C25_Witness ==
    /\ InDraft
    /\ stage = "done"
    /\ outcome = "raised"
    /\ CallKinds = <<"outline">>
    /\ pre.outline_file[locals.novel_number] # <<>>
    /\ outline_file[locals.novel_number] # pre.outline_file[locals.novel_number]
    /\ outline_file[locals.novel_number] = calls[1].response
    /\ pre.chapter_file[locals.novel_number] # <<>>
    /\ chapter_file[locals.novel_number] = pre.chapter_file[locals.novel_number]

(***************************************************************************)
(* Claims about the loop of split_by_length.                                *)
(***************************************************************************)
\* split_by_length is running or has just returned
InSplitLoop == stage # "idle" /\ locals.op = "split_by_length"

\* the smaller of two numbers
Least(a, b) == IF a <= b THEN a ELSE b

\* C26: split_by_length terminates for every text and every max_length >= 1:
\* every iteration advances the start index by the smaller of max_length and
\* what is left of the text, and the call returns exactly
\* ceil(len(text) / max_length) slices, none for an empty text; with
\* max_length <= 0 and a text that is not empty the start index never
\* advances and the loop does not terminate.
C26_SplitByLengthTermination ==
    /\ [](InSplitLoop =>
             LET len == Len(locals.text)
                 n == locals.max_length
                 done == Len(locals.segments)
             IN  /\ n >= 1 =>
                       /\ locals.start_idx = Least(done * n, len)
                       /\ done <= SliceCount(len, n)
                       /\ stage = "done" => done = SliceCount(len, n)
                 /\ len = 0 => locals.segments = <<>>
                 /\ (n <= 0 /\ len > 0) =>
                       /\ locals.start_idx <= 0
                       /\ stage = "split_loop")
    /\ [][(InSplitLoop /\ stage' # "idle" /\ locals.max_length >= 1
             /\ locals' # locals) =>
             locals'.start_idx - locals.start_idx
                = Least(locals.max_length, Len(locals.text) - locals.start_idx)]_vars
    /\ [][(InSplitLoop /\ stage' # "idle" /\ locals.max_length <= 0) =>
             locals'.start_idx <= locals.start_idx]_vars
    /\ ((InSplitLoop /\ locals.max_length >= 1) ~> (InSplitLoop /\ stage = "done"))

\* a text of three characters was split at max_length 2: two iterations, the
\* second of which advanced by the one character left, and two slices
C26_Witness ==
    /\ InSplitLoop
    /\ stage = "done"
    /\ Len(locals.text) = 3
    /\ locals.max_length = 2
    /\ locals.start_idx = 3
    /\ Len(locals.segments) = 2

\* the loop is in its fourth iteration on a text of one character with
\* max_length 0, the start index still 0
C26_LoopRunsOn ==
    /\ InSplitLoop
    /\ stage = "split_loop"
    /\ Len(locals.text) = 1
    /\ locals.max_length = 0
    /\ Len(locals.segments) = 3
    /\ locals.start_idx = 0

====
